---- MODULE Spec2Model ----
(***************************************************************************)
(* The clip synchronization engine of camera-on-drive (CameraOnDrive in    *)
(* src/src/camera-on-drive.ts) with the two remote services it drives: the *)
(* Bosch event source and the Google Drive object store.                   *)
(*                                                                         *)
(* A timestamp string '2021-12-08T17:52:47.339+01:00[Europe/Berlin]' is a  *)
(* record [local, offset, suffix]: the wall-clock reading, the UTC offset  *)
(* (both in half hours) and the text after the bracketed zone name ("" for *)
(* an event's timestamp, ".mp4" for the name of a stored clip).            *)
(* A JavaScript Set is a sequence without repetition (insertion order).    *)
(***************************************************************************)
EXTENDS Integers, Sequences, FiniteSets, TLC

VARIABLES
  pc,                 \* position of the single logical worker
  boschEvents,        \* Remote Event Source: the event list getEvents returns
  nextEventId,        \* number of events the camera has recorded so far
  exportRequested,    \* ids with a requestClipEvents call not yet at a terminal status
  favoriteCalls,      \* ids with a setEventFavoriteStatus(id, true) call not yet applied
  drive,              \* Remote Object Store: the stored objects [name, size]
  usage,              \* storageQuota.usage of the store, in bytes
  videosOnDrive,      \* SyncState: Set<string> threaded through mainLoop
  allEventsEncounted, \* the audit record's set of timestamps
  batch,              \* the ready bucket handed to the Archiver
  index,              \* position of the Archiver in batch
  success,            \* batch counter
  failure,            \* batch counter
  localFiles,         \* ids whose clip <id>.mp4 is on the local disk
  evicted,            \* names deleted from the store by the current eviction loop
  tick,               \* what the last classification decided
  calls,              \* capability calls made by the last engine step
  scheduled,          \* delays (s) of the mainLoop invocations armed and not yet begun;
                      \* 0 for a setTimeout without delay and for a direct call
  auditFile,          \* content of the audit file: the lines last written
  dateInput,          \* a date string handed to toDate
  dateOutput,         \* what toDate returned for it; <<>> before the call
  clientsReady,       \* the clients whose isReady subject has emitted true
  pollers,            \* the export status pollers: [id, state, timeout, seen]
  tokens,             \* BoachConnection._tokens: <<>> for undefined
  now,                \* Date.now()
  tokenCall,          \* the invocation of the connection that ran last
  compareInput,       \* two events, or two timestamps, handed to the comparators
  compareOutput       \* what the comparators returned for them; <<>> before the call

vars == <<pc, boschEvents, nextEventId, exportRequested, favoriteCalls, drive, usage,
          videosOnDrive, allEventsEncounted, batch, index, success, failure,
          localFiles, evicted, tick, calls, scheduled, auditFile,
          dateInput, dateOutput, clientsReady, pollers, tokens, now, tokenCall,
          compareInput, compareOutput>>

----------------------------------------------------------------------------
(* Program constants *)

maxNumberOfFavoriteEvent == 25
maxNumberOfNotFavoriteEvent == 200
maxNumberOfManualRequest == 3
maxNumberOfTry == 3
safetyMargin == 10000000
aMegaByte == 1000000

EventType ==
  {"TROUBLE_CONNECT", "MOVEMENT", "TROUBLE_DISCONNECT",
   "TROUBLE_RECORDING_OFF", "TROUBLE_RECORDING_ON", "AUDIO_ALARM"}

EventVideoClipUploadStatus ==
  {"Unknown", "Local", "Pending", "Done", "Unavailable", "Permanently_unavailable"}

(* Bounds of the model *)

MaxEvents == 2        \* events the camera records in a run of the small world
MaxListed == 2        \* events of a drawn listing
MaxRequestable == 3   \* requestable events of a drawn backlog

----------------------------------------------------------------------------
(* bosch-api.ts: dates and comparators *)

\* new Date(timestamp.split('[')[0]...): the instant of the ISO part; whatever
\* follows the zone name is dropped. `value.timestamp || value`.
getDateFromEventTimestamp(value) ==
  LET timestamp == IF "timestamp" \in DOMAIN value THEN value.timestamp ELSE value
  IN  timestamp.local - timestamp.offset

getTimestampFromEventTimestamp(value) == getDateFromEventTimestamp(value)

\* The comparator with its operands exchanged.
eventsByAscTimestamp_Exchanged(a, b) ==
  getTimestampFromEventTimestamp(b) - getTimestampFromEventTimestamp(a)

eventsByAscTimestamp(a, b) ==
  getTimestampFromEventTimestamp(a) - getTimestampFromEventTimestamp(b)

eventsByDescTimestamp(a, b) ==
  getTimestampFromEventTimestamp(b) - getTimestampFromEventTimestamp(a)

\* boach-api.ts, the earlier event API module: Date.parse(x.timestamp.split('[')[0])
DateParse(timestamp) == timestamp.local - timestamp.offset

boachApi_eventsByAscTimestamp(a, b) == DateParse(b.timestamp) - DateParse(a.timestamp)

boachApi_eventsByDescTimestamp(a, b) == DateParse(a.timestamp) - DateParse(b.timestamp)

\* google-drive-api.ts carries a copy of the event API module.
googleDriveApi_getTimestampFromEventTimestamp(value) ==
  LET timestamp == IF "timestamp" \in DOMAIN value THEN value.timestamp ELSE value
  IN  timestamp.local - timestamp.offset

googleDriveApi_eventsByAscTimestamp(a, b) ==
  googleDriveApi_getTimestampFromEventTimestamp(a)
    - googleDriveApi_getTimestampFromEventTimestamp(b)

googleDriveApi_eventsByDescTimestamp(a, b) ==
  googleDriveApi_getTimestampFromEventTimestamp(b)
    - googleDriveApi_getTimestampFromEventTimestamp(a)

\* `${e.timestamp}.mp4`
Mp4Name(timestamp) == [timestamp EXCEPT !.suffix = timestamp.suffix \o ".mp4"]

\* Array.prototype.sort with a comparator: a stable sort. An element's place
\* is the number of elements that compare smaller, or equal and listed before.
SortByAscTimestamp(s) ==
  LET n == Len(s)
      place == [i \in 1..n |->
                  Cardinality({j \in 1..n :
                     IF j < i THEN eventsByAscTimestamp(s[j], s[i]) <= 0
                              ELSE eventsByAscTimestamp(s[j], s[i]) < 0}) + 1] \o <<>>
      at == [k \in 1..n |-> CHOOSE i \in 1..n : place[i] = k] \o <<>>
  IN  [k \in 1..n |-> s[at[k]]] \o <<>>

----------------------------------------------------------------------------
(* Set<string> *)

SetHas(set, x) == \E i \in DOMAIN set : set[i] = x
SetAdd(set, x) == IF SetHas(set, x) THEN set ELSE Append(set, x)
SetDelete(set, x) == SelectSeq(set, LAMBDA y : y # x)

\* new Set(list) and list.forEach(x => set.add(x)): a Set keeps insertion
\* order, so the result is the set followed by the first occurrences of the
\* values it did not hold.
NewSetFrom(set, list) ==
  LET added == {i \in DOMAIN list :
                  /\ ~SetHas(set, list[i])
                  /\ \A j \in 1..(i - 1) : list[j] # list[i]}
      rank(i) == Cardinality({j \in added : j <= i})
  IN  set \o ([k \in 1..Cardinality(added) |->
                  list[CHOOSE i \in added : rank(i) = k]] \o <<>>)
NewSet(list) == NewSetFrom(<<>>, list)

----------------------------------------------------------------------------
(* boach-connection.ts: the tokens of the event source *)

\* new OAuth2Tokens(value): expires_at = Date.now() + expires_in * 1000
OAuth2Tokens(value, date) ==
  [access_token |-> value.access_token, refresh_token |-> value.refresh_token,
   expires_in |-> value.expires_in, expires_at |-> date + value.expires_in]

\* OAuth2Tokens.isValide
isValide(stored, date) == date < stored.expires_at

\* set tokens(value): an undefined value leaves _tokens as it is
SetTokens(stored, value, date) ==
  IF value = <<>> THEN stored ELSE <<OAuth2Tokens(value[1], date)>>

\* An invocation of the connection: the method called, the try it is at, the
\* token requests it has issued, whether it is running, has returned or has
\* thrown, and the access token or the error that came out.
TokenCall(op, tryNumber, requests, outcome, value, error) ==
  [op |-> op, tryNumber |-> tryNumber, requests |-> requests, outcome |-> outcome,
   value |-> value, error |-> error]

\* The constructor has not yet called firstSetUpCredentials.
NoCall == TokenCall("constructor", 0, 0, "running", "", "")

----------------------------------------------------------------------------
(* camera-on-drive.ts: classification and the per-tick decision *)

\* The classifier keeping only Local, Pending and Done clips.
getEventsWithClipNotYetOnDrive_ThreeStatuses(events, onDrive) ==
  LET byType == SelectSeq(events,
                  LAMBDA e : e.eventType = "MOVEMENT" \/ e.eventType = "AUDIO_ALARM")
      byStatus == SelectSeq(byType,
                  LAMBDA e : e.videoClipUploadStatus \in {"Local", "Pending", "Done"})
      notOnDrive == SelectSeq(byStatus,
                  LAMBDA e : ~SetHas(onDrive, Mp4Name(e.timestamp)))
  IN  SortByAscTimestamp(notOnDrive)

getEventsWithClipNotYetOnDrive(events, onDrive) ==
  LET byType == SelectSeq(events,
                  LAMBDA e : e.eventType = "MOVEMENT" \/ e.eventType = "AUDIO_ALARM")
      byStatus == SelectSeq(byType,
                  LAMBDA e : e.videoClipUploadStatus
                               \notin {"Permanently_unavailable", "Unknown"})
      notOnDrive == SelectSeq(byStatus,
                  LAMBDA e : ~SetHas(onDrive, Mp4Name(e.timestamp)))
  IN  SortByAscTimestamp(notOnDrive)

\* The split with no case for Unavailable: such a clip falls to the default.
splitCameraEventByClipStatus_UnavailableDropped(events) ==
  [clipsReadyToBeUploadToDrive |->
      SelectSeq(events, LAMBDA e : e.videoClipUploadStatus = "Done"),
   clipsToBeRequest |->
      SelectSeq(events, LAMBDA e : e.videoClipUploadStatus = "Local"),
   clipsPending |->
      SelectSeq(events, LAMBDA e : e.videoClipUploadStatus = "Pending")]

splitCameraEventByClipStatus(events) ==
  [clipsReadyToBeUploadToDrive |->
      SelectSeq(events, LAMBDA e : e.videoClipUploadStatus = "Done"),
   clipsToBeRequest |->
      SelectSeq(events, LAMBDA e : e.videoClipUploadStatus \in {"Local", "Unavailable"}),
   clipsPending |->
      SelectSeq(events, LAMBDA e : e.videoClipUploadStatus = "Pending")]

canClipsBeUpload(clipsReadyToBeUploadToDrive) == Len(clipsReadyToBeUploadToDrive) > 0

\* The admission test letting the pending count reach the cap before it refuses.
canClipsBeRequest_UpToCap(clipsToBeRequest, clipsPending) ==
  Len(clipsToBeRequest) > 0 /\ Len(clipsPending) <= maxNumberOfManualRequest

\* The admission guard with the comparison to the cap the wrong way round.
canClipsBeRequest_AboveCap(clipsToBeRequest, clipsPending) ==
  Len(clipsToBeRequest) > 0 /\ Len(clipsPending) > maxNumberOfManualRequest

canClipsBeRequest(clipsToBeRequest, clipsPending) ==
  Len(clipsToBeRequest) > 0 /\ Len(clipsPending) < maxNumberOfManualRequest

\* The guard letting the favorite count reach its maximum before it refuses.
shouldClipBeSetAsFavorite_UpToMax(events) ==
  LET numberOfFavoriteEvent == Len(SelectSeq(events, LAMBDA e : e.isFavorite))
      numberOfNotFavoriteEvent == Len(SelectSeq(events, LAMBDA e : ~e.isFavorite))
  IN  /\ numberOfFavoriteEvent <= maxNumberOfFavoriteEvent
      /\ numberOfNotFavoriteEvent >= maxNumberOfNotFavoriteEvent

\* The guard without its cap on the favorites.
shouldClipBeSetAsFavorite_NoCap(events) ==
  LET numberOfNotFavoriteEvent == Len(SelectSeq(events, LAMBDA e : ~e.isFavorite))
  IN  numberOfNotFavoriteEvent >= maxNumberOfNotFavoriteEvent

shouldClipBeSetAsFavorite(events) ==
  LET numberOfFavoriteEvent == Len(SelectSeq(events, LAMBDA e : e.isFavorite))
      numberOfNotFavoriteEvent == Len(SelectSeq(events, LAMBDA e : ~e.isFavorite))
  IN  /\ numberOfFavoriteEvent < maxNumberOfFavoriteEvent
      /\ numberOfNotFavoriteEvent >= maxNumberOfNotFavoriteEvent

\* events.find(e => !e.isFavorite): <<>> for undefined
setOldestNonFavoriteEventAsFavorite(events) ==
  LET notFavorite == SelectSeq(events, LAMBDA e : ~e.isFavorite)
  IN  IF notFavorite = <<>> THEN <<>> ELSE <<Head(notFavorite).id>>

\* What one run of mainLoop decided: the listing it read, the branch, the
\* working list and its three buckets, the calls made, and the
\* setTimeout(mainLoop, delay) it arms.
TickRecord(branch, events, ready, requested, promoted, delay) ==
  [branch |-> branch, working |-> events, ready |-> ready,
   buckets |-> splitCameraEventByClipStatus(events),
   requested |-> requested, promoted |-> promoted, delay |-> delay,
   timeouts |-> <<delay>>, listing |-> <<>>]

\* handleClipsNotYetOnDrive testing the request branch before the archive branch.
handleClipsNotYetOnDrive_RequestFirst(events) ==
  LET split == splitCameraEventByClipStatus(events)
      ready == split.clipsReadyToBeUploadToDrive
      toRequest == split.clipsToBeRequest
      pending == split.clipsPending
  IN  IF canClipsBeRequest(toRequest, pending)
        THEN TickRecord("request", events, <<>>,
                        <<toRequest[Len(toRequest)].id>>, <<>>, 10)
      ELSE IF canClipsBeUpload(ready)
        THEN TickRecord("archive", events, ready, <<>>, <<>>, 0)
      ELSE IF shouldClipBeSetAsFavorite(events)
        THEN TickRecord("favorite", events, <<>>, <<>>,
                        setOldestNonFavoriteEventAsFavorite(events), 0)
      ELSE TickRecord("wait", events, <<>>, <<>>, <<>>, 10)

\* handleClipsNotYetOnDrive requesting the first clip of clipsToBeRequest.
handleClipsNotYetOnDrive_FirstRequested(events) ==
  LET split == splitCameraEventByClipStatus(events)
      ready == split.clipsReadyToBeUploadToDrive
      toRequest == split.clipsToBeRequest
      pending == split.clipsPending
  IN  IF canClipsBeUpload(ready)
        THEN TickRecord("archive", events, ready, <<>>, <<>>, 0)
      ELSE IF canClipsBeRequest(toRequest, pending)
        THEN TickRecord("request", events, <<>>, <<toRequest[1].id>>, <<>>, 10)
      ELSE IF shouldClipBeSetAsFavorite(events)
        THEN TickRecord("favorite", events, <<>>, <<>>,
                        setOldestNonFavoriteEventAsFavorite(events), 0)
      ELSE TickRecord("wait", events, <<>>, <<>>, <<>>, 10)

\* handleClipsNotYetOnDrive whose request branch falls through to the timer
\* of the last branch: two timers are armed.
handleClipsNotYetOnDrive_FallsThrough(events) ==
  LET split == splitCameraEventByClipStatus(events)
      ready == split.clipsReadyToBeUploadToDrive
      toRequest == split.clipsToBeRequest
      pending == split.clipsPending
  IN  IF canClipsBeUpload(ready)
        THEN TickRecord("archive", events, ready, <<>>, <<>>, 0)
      ELSE IF canClipsBeRequest(toRequest, pending)
        THEN [TickRecord("request", events, <<>>,
                         <<toRequest[Len(toRequest)].id>>, <<>>, 10)
                EXCEPT !.timeouts = <<10, 10>>]
      ELSE IF shouldClipBeSetAsFavorite(events)
        THEN TickRecord("favorite", events, <<>>, <<>>,
                        setOldestNonFavoriteEventAsFavorite(events), 0)
      ELSE TickRecord("wait", events, <<>>, <<>>, <<>>, 10)

\* handleClipsNotYetOnDrive requesting every clip of clipsToBeRequest at once.
handleClipsNotYetOnDrive_AllRequested(events) ==
  LET split == splitCameraEventByClipStatus(events)
      ready == split.clipsReadyToBeUploadToDrive
      toRequest == split.clipsToBeRequest
      pending == split.clipsPending
  IN  IF canClipsBeUpload(ready)
        THEN TickRecord("archive", events, ready, <<>>, <<>>, 0)
      ELSE IF canClipsBeRequest(toRequest, pending)
        THEN TickRecord("request", events, <<>>,
                        [i \in DOMAIN toRequest |-> toRequest[i].id], <<>>, 10)
      ELSE IF shouldClipBeSetAsFavorite(events)
        THEN TickRecord("favorite", events, <<>>, <<>>,
                        setOldestNonFavoriteEventAsFavorite(events), 0)
      ELSE TickRecord("wait", events, <<>>, <<>>, <<>>, 10)

\* handleClipsNotYetOnDrive testing the favorite branch before the request branch.
handleClipsNotYetOnDrive_FavoriteFirst(events) ==
  LET split == splitCameraEventByClipStatus(events)
      ready == split.clipsReadyToBeUploadToDrive
      toRequest == split.clipsToBeRequest
      pending == split.clipsPending
  IN  IF canClipsBeUpload(ready)
        THEN TickRecord("archive", events, ready, <<>>, <<>>, 0)
      ELSE IF shouldClipBeSetAsFavorite(events)
        THEN TickRecord("favorite", events, <<>>, <<>>,
                        setOldestNonFavoriteEventAsFavorite(events), 0)
      ELSE IF canClipsBeRequest(toRequest, pending)
        THEN TickRecord("request", events, <<>>,
                        <<toRequest[Len(toRequest)].id>>, <<>>, 10)
      ELSE TickRecord("wait", events, <<>>, <<>>, <<>>, 10)

\* handleClipsNotYetOnDrive re-arming mainLoop 10 s after a promotion, as it
\* does after a request.
handleClipsNotYetOnDrive_FavoriteDelayed(events) ==
  LET split == splitCameraEventByClipStatus(events)
      ready == split.clipsReadyToBeUploadToDrive
      toRequest == split.clipsToBeRequest
      pending == split.clipsPending
  IN  IF canClipsBeUpload(ready)
        THEN TickRecord("archive", events, ready, <<>>, <<>>, 0)
      ELSE IF canClipsBeRequest(toRequest, pending)
        THEN TickRecord("request", events, <<>>,
                        <<toRequest[Len(toRequest)].id>>, <<>>, 10)
      ELSE IF shouldClipBeSetAsFavorite(events)
        THEN TickRecord("favorite", events, <<>>, <<>>,
                        setOldestNonFavoriteEventAsFavorite(events), 10)
      ELSE TickRecord("wait", events, <<>>, <<>>, <<>>, 10)

\* handleClipsNotYetOnDrive requesting only clips that were never requested:
\* an Unavailable clip is left alone.
handleClipsNotYetOnDrive_NoRetry(events) ==
  LET split == splitCameraEventByClipStatus(events)
      ready == split.clipsReadyToBeUploadToDrive
      toRequest == SelectSeq(split.clipsToBeRequest,
                             LAMBDA e : e.videoClipUploadStatus = "Local")
      pending == split.clipsPending
  IN  IF canClipsBeUpload(ready)
        THEN TickRecord("archive", events, ready, <<>>, <<>>, 0)
      ELSE IF canClipsBeRequest(toRequest, pending)
        THEN TickRecord("request", events, <<>>,
                        <<toRequest[Len(toRequest)].id>>, <<>>, 10)
      ELSE IF shouldClipBeSetAsFavorite(events)
        THEN TickRecord("favorite", events, <<>>, <<>>,
                        setOldestNonFavoriteEventAsFavorite(events), 0)
      ELSE TickRecord("wait", events, <<>>, <<>>, <<>>, 10)

\* The branch handleClipsNotYetOnDrive takes, the calls it makes and the delay
\* of the setTimeout that re-arms mainLoop (in seconds).
handleClipsNotYetOnDrive(events) ==
  LET split == splitCameraEventByClipStatus(events)
      ready == split.clipsReadyToBeUploadToDrive
      toRequest == split.clipsToBeRequest
      pending == split.clipsPending
  IN  IF canClipsBeUpload(ready)
        THEN TickRecord("archive", events, ready, <<>>, <<>>, 0)
      ELSE IF canClipsBeRequest(toRequest, pending)
        THEN TickRecord("request", events, <<>>,
                        <<toRequest[Len(toRequest)].id>>, <<>>, 10)
      ELSE IF shouldClipBeSetAsFavorite(events)
        THEN TickRecord("favorite", events, <<>>, <<>>,
                        setOldestNonFavoriteEventAsFavorite(events), 0)
      ELSE TickRecord("wait", events, <<>>, <<>>, <<>>, 10)

\* mainLoop after the audit step: classify, then act or fall back to the idle
\* refresh.
mainLoopDecision(events, onDrive) ==
  LET working == getEventsWithClipNotYetOnDrive(events, onDrive)
      decision == IF Len(working) > 0
                    THEN handleClipsNotYetOnDrive(working)
                    ELSE TickRecord("idle", <<>>, <<>>, <<>>, <<>>, 30)
  IN  [decision EXCEPT !.listing = events]

NoTick == TickRecord("none", <<>>, <<>>, <<>>, <<>>, 0)

----------------------------------------------------------------------------
(* camera-on-drive.ts: the Archiver's helpers *)

\* videosOnDrive.forEach with a running minimum; <<>> for undefined
RECURSIVE oldestVideoFrom(_, _, _)
oldestVideoFrom(set, i, oldestVideo) ==
  IF i > Len(set) THEN oldestVideo
  ELSE IF oldestVideo = <<>> THEN oldestVideoFrom(set, i + 1, <<set[i]>>)
  ELSE IF getDateFromEventTimestamp(oldestVideo[1]) > getDateFromEventTimestamp(set[i])
    THEN oldestVideoFrom(set, i + 1, <<set[i]>>)
  ELSE oldestVideoFrom(set, i + 1, oldestVideo)

\* The first name of the Set, whatever its date.
getOldestVideoName_FirstOfSet(set) == IF set = <<>> THEN <<>> ELSE <<set[1]>>

getOldestVideoName(set) == oldestVideoFrom(set, 1, <<>>)

\* The test without the safety margin.
isEnoughSpaceInDriveForFile_NoMargin(size, availableSpaceInBytes) ==
  ~(availableSpaceInBytes < size)

\* stats.size against getAvailableSpace() - 10_000_000
isEnoughSpaceInDriveForFile(size, availableSpaceInBytes) ==
  LET availableSpace == availableSpaceInBytes - safetyMargin
  IN  ~(availableSpace < size)

----------------------------------------------------------------------------
(* The two remote services *)

\* storageQuota.limit of the store
DriveLimit == 20 * aMegaByte

\* google-drive-api.ts getAvailableSpace: limit - usage
getAvailableSpace(storageUsage) == DriveLimit - storageUsage

\* google-drive-api.ts listAllFilesName: every object name, in listing order
listAllFilesName(objects) == [i \in DOMAIN objects |-> objects[i].name]

\* files.list(q: name=...)[0]: position of the first object of that name, 0 if none
FirstNamed(objects, name) ==
  IF \E i \in DOMAIN objects : objects[i].name = name
    THEN CHOOSE i \in DOMAIN objects :
           /\ objects[i].name = name
           /\ \A j \in 1..(i - 1) : objects[j].name # name
    ELSE 0

RemoveAt(s, i) == [k \in 1..(Len(s) - 1) |-> IF k < i THEN s[k] ELSE s[k + 1]]

Offsets == {2, 4}

\* The event the camera records as its id-th: instants grow with the id while
\* the offset alternates, so that the order of the strings is not the order
\* of the instants.
EventTimestamp(id) ==
  LET offset == IF id % 2 = 1 THEN 2 ELSE 4
  IN  [local |-> 20 + id + offset, offset |-> offset, suffix |-> ""]

RecordedEvent(id, status) ==
  [id |-> id,
   eventType |-> IF id % 2 = 1 THEN "MOVEMENT" ELSE "AUDIO_ALARM",
   timestamp |-> EventTimestamp(id),
   isFavorite |-> FALSE,
   videoClipUploadStatus |-> status]

\* Size in bytes of the clip of an event (what statSync reports once the clip
\* has been downloaded to <id>.mp4).
ClipSize(id) == IF id % 2 = 1 THEN 3 * aMegaByte ELSE 6 * aMegaByte

\* Clips archived by an earlier run of the program: the older one is listed last.
OldClips ==
  <<[name |-> [local |-> 12, offset |-> 2, suffix |-> ".mp4"], size |-> 4 * aMegaByte],
    [name |-> [local |-> 13, offset |-> 4, suffix |-> ".mp4"], size |-> 2 * aMegaByte]>>

RECURSIVE SumSizes(_)
SumSizes(objects) ==
  IF objects = <<>> THEN 0 ELSE Head(objects).size + SumSizes(Tail(objects))

----------------------------------------------------------------------------
(* The engine: CameraOnDrive *)

engineVars == <<pc, videosOnDrive, allEventsEncounted, batch, index, success, failure,
                localFiles, evicted, tick, calls, scheduled, auditFile>>
archiverVars == <<batch, index, success, failure, localFiles, evicted>>
boschVars == <<boschEvents, nextEventId, exportRequested, favoriteCalls>>
driveVars == <<drive, usage>>
dateVars == <<dateInput, dateOutput>>
sideVars == <<clientsReady, pollers>>
tokenVars == <<tokens, now, tokenCall>>
compareVars == <<compareInput, compareOutput>>

SeqToSet(s) == {s[i] : i \in DOMAIN s}

\* The new poller of an export request: its first check is armed for 5 s
\* from now, and it has read no status yet.
uploadingClipFromCameraToBosch(id) ==
  [id |-> id, state |-> "waiting", timeout |-> 5, seen |-> "none"]

\* start() without its second await: the store is listed as soon as its own
\* client is ready.
StartAwaitGoogle_SkipsBosch ==
  /\ pc = "start"
  /\ "google" \in clientsReady
  /\ pc' = "startList"
  /\ UNCHANGED <<videosOnDrive, allEventsEncounted, auditFile, archiverVars, tick,
                 calls, scheduled, boschVars, driveVars, dateVars, sideVars, tokenVars, compareVars>>

\* start(), first await: googleApi.waitUntilReady() resolves once the client
\* of the store has reported ready.
StartAwaitGoogle ==
  /\ pc = "start"
  /\ "google" \in clientsReady
  /\ pc' = "startBosch"
  /\ UNCHANGED <<videosOnDrive, allEventsEncounted, auditFile, archiverVars, tick,
                 calls, scheduled, boschVars, driveVars, dateVars, sideVars, tokenVars, compareVars>>

\* start(), second await: boschApi.waitUntilReady().
StartAwaitBosch ==
  /\ pc = "startBosch"
  /\ "bosch" \in clientsReady
  /\ pc' = "startList"
  /\ UNCHANGED <<videosOnDrive, allEventsEncounted, auditFile, archiverVars, tick,
                 calls, scheduled, boschVars, driveVars, dateVars, sideVars, tokenVars, compareVars>>

\* start(), the rest: list the store, then the first mainLoop on that listing.
\* listAllFilesName rethrows what the API throws, and start() has no catch.
Start ==
  /\ pc = "startList"
  /\ \E isListed \in BOOLEAN :
       IF isListed
         THEN /\ videosOnDrive' = NewSet(listAllFilesName(drive))
              /\ pc' = "audit"
              /\ scheduled' = Append(scheduled, 0)
              /\ calls' = <<>>
         ELSE /\ pc' = "stopped"
              /\ calls' = <<[op |-> "listAllFilesName", ok |-> FALSE]>>
              /\ UNCHANGED <<videosOnDrive, scheduled>>
  /\ UNCHANGED <<allEventsEncounted, auditFile, archiverVars, tick, boschVars,
                 driveVars, dateVars, sideVars, tokenVars, compareVars>>

\* recordInFileAllEventsEncounted without its try/catch: a failed writeFile
\* rejects mainLoop.
TickAudit_WriteRethrows ==
  /\ pc = "audit"
  /\ scheduled # <<>>
  /\ scheduled' = Tail(scheduled)
  /\ \E isListed \in BOOLEAN, isWritten \in BOOLEAN :
       IF isListed
         THEN /\ allEventsEncounted' =
                   NewSetFrom(allEventsEncounted,
                              [i \in DOMAIN boschEvents |-> boschEvents[i].timestamp])
              /\ auditFile' = IF isWritten THEN SortByAscTimestamp(allEventsEncounted')
                              ELSE auditFile
              /\ calls' = <<[op |-> "writeFile", ok |-> isWritten]>>
              /\ pc' = IF isWritten THEN "classify" ELSE "stopped"
         ELSE /\ pc' = "stopped"
              /\ calls' = <<[op |-> "getEvents", ok |-> FALSE]>>
              /\ UNCHANGED <<allEventsEncounted, auditFile>>
  /\ batch' = <<>>
  /\ index' = 0
  /\ success' = 0
  /\ failure' = 0
  /\ UNCHANGED <<videosOnDrive, localFiles, evicted, tick, boschVars, driveVars,
                 dateVars, sideVars, tokenVars, compareVars>>

\* recordInFileAllEventsEncounted writing the timestamps of the current
\* listing only.
TickAudit_WritesCurrentListing ==
  /\ pc = "audit"
  /\ scheduled # <<>>
  /\ scheduled' = Tail(scheduled)
  /\ \E isListed \in BOOLEAN, isWritten \in BOOLEAN :
       IF isListed
         THEN /\ allEventsEncounted' =
                   NewSetFrom(allEventsEncounted,
                              [i \in DOMAIN boschEvents |-> boschEvents[i].timestamp])
              /\ auditFile' =
                   IF isWritten
                     THEN SortByAscTimestamp(
                            [i \in DOMAIN boschEvents |-> boschEvents[i].timestamp])
                     ELSE auditFile
              /\ calls' = <<[op |-> "writeFile", ok |-> isWritten]>>
              /\ pc' = "classify"
         ELSE /\ pc' = "stopped"
              /\ calls' = <<[op |-> "getEvents", ok |-> FALSE]>>
              /\ UNCHANGED <<allEventsEncounted, auditFile>>
  /\ batch' = <<>>
  /\ index' = 0
  /\ success' = 0
  /\ failure' = 0
  /\ UNCHANGED <<videosOnDrive, localFiles, evicted, tick, boschVars, driveVars,
                 dateVars, sideVars, tokenVars, compareVars>>

\* mainLoop, first await: recordInFileAllEventsEncounted. getEvents rethrows
\* and neither recordInFileAllEventsEncounted nor mainLoop catches it; a
\* failed writeFile is caught and logged.
TickAudit ==
  /\ pc = "audit"
  /\ scheduled # <<>>
  /\ scheduled' = Tail(scheduled)
  /\ \E isListed \in BOOLEAN, isWritten \in BOOLEAN :
       IF isListed
         THEN /\ allEventsEncounted' =
                   NewSetFrom(allEventsEncounted,
                              [i \in DOMAIN boschEvents |-> boschEvents[i].timestamp])
              /\ auditFile' = IF isWritten THEN SortByAscTimestamp(allEventsEncounted')
                              ELSE auditFile
              /\ calls' = <<[op |-> "writeFile", ok |-> isWritten]>>
              /\ pc' = "classify"
         ELSE /\ pc' = "stopped"
              /\ calls' = <<[op |-> "getEvents", ok |-> FALSE]>>
              /\ UNCHANGED <<allEventsEncounted, auditFile>>
  /\ batch' = <<>>
  /\ index' = 0
  /\ success' = 0
  /\ failure' = 0
  /\ UNCHANGED <<videosOnDrive, localFiles, evicted, tick, boschVars, driveVars,
                 dateVars, sideVars, tokenVars, compareVars>>

\* mainLoop from its second getEvents on: classification, then
\* handleClipsNotYetOnDrive up to its first await or its setTimeout. The
\* getEvents of getEventsWithClipNotYetOnDrive rethrows as well.
TickClassify ==
  /\ pc = "classify"
  /\ \E isListed \in BOOLEAN :
       IF isListed
         THEN \E decision \in {mainLoopDecision(boschEvents, videosOnDrive)} :
                /\ tick' = decision
                /\ exportRequested' = exportRequested \cup SeqToSet(decision.requested)
                /\ favoriteCalls' = favoriteCalls \cup SeqToSet(decision.promoted)
                /\ pollers' = pollers \cup
                     {uploadingClipFromCameraToBosch(id) : id \in SeqToSet(decision.requested)}
                /\ calls' =
                     [i \in DOMAIN decision.requested |->
                        [op |-> "requestClipEvents", id |-> decision.requested[i]]]
                     \o [i \in DOMAIN decision.promoted |->
                        [op |-> "setEventFavoriteStatus", id |-> decision.promoted[i]]]
                /\ batch' = decision.ready
                /\ index' = IF decision.branch = "archive" THEN 1 ELSE 0
                /\ scheduled' = IF decision.branch = "archive" THEN scheduled
                                ELSE scheduled \o decision.timeouts
                /\ pc' = IF decision.branch = "archive" THEN "download"
                         ELSE IF decision.branch = "idle" THEN "idle"
                         ELSE "audit"
         ELSE /\ pc' = "stopped"
              /\ calls' = <<[op |-> "getEvents", ok |-> FALSE]>>
              /\ UNCHANGED <<tick, exportRequested, favoriteCalls, batch, index,
                             scheduled, pollers>>
  /\ UNCHANGED <<videosOnDrive, allEventsEncounted, auditFile, success, failure,
                 localFiles, evicted, boschEvents, nextEventId, driveVars, dateVars,
                 clientsReady, tokenVars, compareVars>>

\* The 30 s timer of the idle branch: mainLoop(new Set(await listAllFilesName())).
\* When listAllFilesName throws, the callback rejects before it calls mainLoop.
IdleRefresh ==
  /\ pc = "idle"
  /\ scheduled # <<>>
  /\ \E isListed \in BOOLEAN :
       IF isListed
         THEN /\ videosOnDrive' = NewSet(listAllFilesName(drive))
              /\ pc' = "audit"
              /\ calls' = <<>>
              /\ scheduled' = Append(Tail(scheduled), 0)
         ELSE /\ pc' = "stopped"
              /\ scheduled' = Tail(scheduled)
              /\ calls' = <<[op |-> "listAllFilesName", ok |-> FALSE]>>
              /\ UNCHANGED videosOnDrive
  /\ UNCHANGED <<allEventsEncounted, auditFile, archiverVars, tick, boschVars,
                 driveVars, dateVars, sideVars, tokenVars, compareVars>>

\* A for loop that a failure ends: after an event that was counted as a
\* failure the batch is over.
NextInBatch_AbortsOnFailure ==
  /\ index' = index + 1
  /\ pc' = IF index < Len(batch) /\ failure' = failure THEN "download" ELSE "audit"
  /\ scheduled' = IF index < Len(batch) /\ failure' = failure THEN scheduled
                  ELSE scheduled \o tick.timeouts

\* The for loop of uploadingAllReadyClipsFromBoschToDrive moves on; after the
\* last event the batch summary is logged and handleClipsNotYetOnDrive arms
\* setTimeout(mainLoop).
NextInBatch ==
  /\ index' = index + 1
  /\ pc' = IF index < Len(batch) THEN "download" ELSE "audit"
  /\ scheduled' = IF index < Len(batch) THEN scheduled
                  ELSE scheduled \o tick.timeouts

\* A failed download that ends the batch instead of moving on to the next
\* event.
ArchiveDownload_EndsBatch ==
  /\ pc = "download"
  /\ \E isDownloadSuccess \in BOOLEAN :
       /\ calls' = <<[op |-> "downloadVideo", id |-> batch[index].id,
                      ok |-> isDownloadSuccess]>>
       /\ IF isDownloadSuccess
            THEN /\ localFiles' = localFiles \cup {batch[index].id}
                 /\ pc' = "ensure"
                 /\ UNCHANGED <<index, failure, scheduled>>
            ELSE /\ failure' = failure + 1
                 /\ index' = index + 1
                 /\ pc' = "audit"
                 /\ scheduled' = scheduled \o tick.timeouts
                 /\ UNCHANGED localFiles
  /\ evicted' = <<>>
  /\ UNCHANGED <<videosOnDrive, allEventsEncounted, auditFile, batch, success, tick,
                 boschVars, driveVars, dateVars, sideVars, tokenVars, compareVars>>

\* downloadingLocallyClipFromBosch; a failed download rejects, which the
\* .catch of the loop counts.
ArchiveDownload ==
  /\ pc = "download"
  /\ \E isDownloadSuccess \in BOOLEAN :
       /\ calls' = <<[op |-> "downloadVideo", id |-> batch[index].id,
                      ok |-> isDownloadSuccess]>>
       /\ IF isDownloadSuccess
            THEN /\ localFiles' = localFiles \cup {batch[index].id}
                 /\ pc' = "ensure"
                 /\ UNCHANGED <<index, failure, scheduled>>
            ELSE /\ failure' = failure + 1
                 /\ NextInBatch
                 /\ UNCHANGED localFiles
  /\ evicted' = <<>>
  /\ UNCHANGED <<videosOnDrive, allEventsEncounted, auditFile, batch, success, tick,
                 boschVars, driveVars, dateVars, sideVars, tokenVars, compareVars>>

\* The second .then of the loop body: it runs whatever uploadingLocalClipToDrive
\* resolved to. deleteEvent may throw, which the .catch counts.
ThenArchived(event, isEventDeleted, made) ==
  /\ success' = success + 1
  /\ videosOnDrive' = SetAdd(videosOnDrive, Mp4Name(event.timestamp))
  /\ calls' = Append(made, [op |-> "deleteEvent", id |-> event.id, ok |-> isEventDeleted])
  /\ IF isEventDeleted
       THEN /\ boschEvents' = SelectSeq(boschEvents, LAMBDA e : e.id # event.id)
            /\ exportRequested' = exportRequested \ {event.id}
            /\ favoriteCalls' = favoriteCalls \ {event.id}
            /\ UNCHANGED failure
       ELSE /\ failure' = failure + 1
            /\ UNCHANGED <<boschEvents, exportRequested, favoriteCalls>>
  /\ NextInBatch
  /\ UNCHANGED <<nextEventId, allEventsEncounted, auditFile, batch, tick, dateVars,
                 sideVars, tokenVars, compareVars>>

\* The eviction loop giving up when there is nothing left to evict: it throws,
\* which uploadingLocalClipToDrive catches.
ArchiveEnsureSpace_ThrowsWhenExhausted ==
  /\ pc = "ensure"
  /\ \E throws \in BOOLEAN, isVideoDeleted \in BOOLEAN, isEventDeleted \in BOOLEAN :
       LET event == batch[index]
           availableSpace == getAvailableSpace(usage)
           quota == [op |-> "getAvailableSpace", result |-> availableSpace,
                     size |-> ClipSize(event.id)]
           oldestVideo == getOldestVideoName(videosOnDrive)
           at == IF oldestVideo = <<>> THEN 0 ELSE FirstNamed(drive, oldestVideo[1])
       IN  IF throws
             THEN /\ ThenArchived(event, isEventDeleted, <<>>)
                  /\ UNCHANGED <<localFiles, evicted, driveVars>>
           ELSE IF isEnoughSpaceInDriveForFile(ClipSize(event.id), availableSpace)
             THEN /\ pc' = "upload"
                  /\ calls' = <<quota>>
                  /\ UNCHANGED <<videosOnDrive, allEventsEncounted, auditFile,
                                 archiverVars, tick, scheduled, boschVars, driveVars,
                                 dateVars, sideVars, tokenVars, compareVars>>
           ELSE IF oldestVideo = <<>>
             THEN /\ ThenArchived(event, isEventDeleted, <<quota>>)
                  /\ UNCHANGED <<localFiles, evicted, driveVars>>
           ELSE /\ isVideoDeleted => at # 0
                /\ calls' = <<quota, [op |-> "deleteVideo", name |-> oldestVideo[1],
                                      ok |-> isVideoDeleted]>>
                /\ IF isVideoDeleted
                     THEN /\ drive' = RemoveAt(drive, at)
                          /\ usage' = usage - drive[at].size
                          /\ videosOnDrive' = SetDelete(videosOnDrive, oldestVideo[1])
                          /\ evicted' = Append(evicted, oldestVideo[1])
                     ELSE UNCHANGED <<drive, usage, videosOnDrive, evicted>>
                /\ UNCHANGED <<pc, allEventsEncounted, auditFile, batch, index, success,
                               failure, localFiles, tick, scheduled, boschVars,
                               dateVars, sideVars, tokenVars, compareVars>>

\* The eviction loop without its if (isVideoDeleted): the name leaves the
\* SyncState whatever deleteVideo returned.
ArchiveEnsureSpace_AlwaysForgets ==
  /\ pc = "ensure"
  /\ \E throws \in BOOLEAN, isVideoDeleted \in BOOLEAN, isEventDeleted \in BOOLEAN :
       LET event == batch[index]
           availableSpace == getAvailableSpace(usage)
           quota == [op |-> "getAvailableSpace", result |-> availableSpace,
                     size |-> ClipSize(event.id)]
           oldestVideo == getOldestVideoName(videosOnDrive)
           at == IF oldestVideo = <<>> THEN 0 ELSE FirstNamed(drive, oldestVideo[1])
       IN  IF throws
             THEN /\ ThenArchived(event, isEventDeleted, <<>>)
                  /\ UNCHANGED <<localFiles, evicted, driveVars>>
           ELSE IF isEnoughSpaceInDriveForFile(ClipSize(event.id), availableSpace)
             THEN /\ pc' = "upload"
                  /\ calls' = <<quota>>
                  /\ UNCHANGED <<videosOnDrive, allEventsEncounted, auditFile,
                                 archiverVars, tick, scheduled, boschVars, driveVars,
                                 dateVars, sideVars, tokenVars, compareVars>>
           ELSE IF oldestVideo = <<>>
             THEN /\ calls' = <<quota>>
                  /\ UNCHANGED <<pc, videosOnDrive, allEventsEncounted, auditFile,
                                 archiverVars, tick, scheduled, boschVars, driveVars,
                                 dateVars, sideVars, tokenVars, compareVars>>
           ELSE /\ isVideoDeleted => at # 0
                /\ calls' = <<quota, [op |-> "deleteVideo", name |-> oldestVideo[1],
                                      ok |-> isVideoDeleted]>>
                /\ videosOnDrive' = SetDelete(videosOnDrive, oldestVideo[1])
                /\ IF isVideoDeleted
                     THEN /\ drive' = RemoveAt(drive, at)
                          /\ usage' = usage - drive[at].size
                          /\ evicted' = Append(evicted, oldestVideo[1])
                     ELSE UNCHANGED <<drive, usage, evicted>>
                /\ UNCHANGED <<pc, allEventsEncounted, auditFile, batch, index, success,
                               failure, localFiles, tick, scheduled, boschVars,
                               dateVars, sideVars, tokenVars, compareVars>>

\* One iteration of the while loop of ensureThatTheDriveHasEnoughSpace. A
\* throw (statSync, getAvailableSpace or the files.list of deleteVideo) is
\* caught by uploadingLocalClipToDrive, which then resolves to false.
ArchiveEnsureSpace ==
  /\ pc = "ensure"
  /\ \E throws \in BOOLEAN, isVideoDeleted \in BOOLEAN, isEventDeleted \in BOOLEAN :
       LET event == batch[index]
           availableSpace == getAvailableSpace(usage)
           quota == [op |-> "getAvailableSpace", result |-> availableSpace,
                     size |-> ClipSize(event.id)]
           oldestVideo == getOldestVideoName(videosOnDrive)
           at == IF oldestVideo = <<>> THEN 0 ELSE FirstNamed(drive, oldestVideo[1])
       IN  IF throws
             THEN /\ ThenArchived(event, isEventDeleted, <<>>)
                  /\ UNCHANGED <<localFiles, evicted, driveVars>>
           ELSE IF isEnoughSpaceInDriveForFile(ClipSize(event.id), availableSpace)
             THEN /\ pc' = "upload"
                  /\ calls' = <<quota>>
                  /\ UNCHANGED <<videosOnDrive, allEventsEncounted, auditFile,
                                 archiverVars, tick, scheduled, boschVars, driveVars,
                                 dateVars, sideVars, tokenVars, compareVars>>
           ELSE IF oldestVideo = <<>>
             THEN /\ calls' = <<quota>>
                  /\ UNCHANGED <<pc, videosOnDrive, allEventsEncounted, auditFile,
                                 archiverVars, tick, scheduled, boschVars, driveVars,
                                 dateVars, sideVars, tokenVars, compareVars>>
           ELSE /\ isVideoDeleted => at # 0
                /\ calls' = <<quota, [op |-> "deleteVideo", name |-> oldestVideo[1],
                                      ok |-> isVideoDeleted]>>
                /\ IF isVideoDeleted
                     THEN /\ drive' = RemoveAt(drive, at)
                          /\ usage' = usage - drive[at].size
                          /\ videosOnDrive' = SetDelete(videosOnDrive, oldestVideo[1])
                          /\ evicted' = Append(evicted, oldestVideo[1])
                     ELSE UNCHANGED <<drive, usage, videosOnDrive, evicted>>
                /\ UNCHANGED <<pc, allEventsEncounted, auditFile, batch, index, success,
                               failure, localFiles, tick, scheduled, boschVars,
                               dateVars, sideVars, tokenVars, compareVars>>

\* The rest of uploadingLocalClipToDrive (uploadVideo, deleteLocalFile), then
\* the second .then of the loop body. deleteLocalFile catches what unlinkSync
\* throws and leaves the file.
ArchiveUpload ==
  /\ pc = "upload"
  /\ \E isUploaded \in BOOLEAN, isUnlinked \in BOOLEAN, isEventDeleted \in BOOLEAN :
       LET event == batch[index]
           size == ClipSize(event.id)
       IN  /\ isUploaded => usage + size <= DriveLimit
           /\ IF isUploaded
                THEN /\ drive' = Append(drive, [name |-> Mp4Name(event.timestamp),
                                                size |-> size])
                     /\ usage' = usage + size
                ELSE UNCHANGED <<drive, usage>>
           /\ localFiles' = IF isUnlinked THEN localFiles \ {event.id} ELSE localFiles
           /\ ThenArchived(event, isEventDeleted,
                <<[op |-> "uploadVideo", name |-> Mp4Name(event.timestamp),
                   ok |-> isUploaded]>>)
  /\ UNCHANGED evicted

----------------------------------------------------------------------------
(* The remote services and the camera *)

SetStatus(events, id, status) ==
  [i \in DOMAIN events |->
     IF events[i].id = id THEN [events[i] EXCEPT !.videoClipUploadStatus = status]
     ELSE events[i]]

\* The event source starts the export of a requested clip.
RemoteStartExport ==
  /\ \E i \in DOMAIN boschEvents :
       /\ boschEvents[i].id \in exportRequested
       /\ boschEvents[i].videoClipUploadStatus \in {"Local", "Unavailable"}
       /\ boschEvents' = SetStatus(boschEvents, boschEvents[i].id, "Pending")
  /\ UNCHANGED <<engineVars, nextEventId, exportRequested, favoriteCalls, driveVars,
                 dateVars, sideVars, tokenVars, compareVars>>

\* An export reaches one of the terminal statuses.
ExportEnds(statuses) ==
  /\ \E i \in DOMAIN boschEvents, status \in statuses :
       /\ boschEvents[i].videoClipUploadStatus = "Pending"
       /\ boschEvents' = SetStatus(boschEvents, boschEvents[i].id, status)
       /\ exportRequested' = exportRequested \ {boschEvents[i].id}
  /\ UNCHANGED <<engineVars, nextEventId, favoriteCalls, driveVars, dateVars, sideVars, tokenVars, compareVars>>

RemoteFinishExport == ExportEnds({"Done", "Unavailable"})

\* The camera records a new event; the event source lists the newest first.
CameraRecords(max) ==
  /\ nextEventId < max
  /\ nextEventId' = nextEventId + 1
  /\ boschEvents' = <<RecordedEvent(nextEventId + 1, "Local")>> \o boschEvents
  /\ UNCHANGED <<engineVars, exportRequested, favoriteCalls, driveVars, dateVars,
                 sideVars, tokenVars, compareVars>>

CameraRecordsEvent == CameraRecords(MaxEvents)

\* The event source applies a favorite change it was sent.
RemoteApplyFavorite ==
  /\ \E id \in favoriteCalls :
       /\ boschEvents' =
            [i \in DOMAIN boschEvents |->
               IF boschEvents[i].id = id
                 THEN [boschEvents[i] EXCEPT !.isFavorite = TRUE]
                 ELSE boschEvents[i]]
       /\ favoriteCalls' = favoriteCalls \ {id}
  /\ UNCHANGED <<engineVars, nextEventId, exportRequested, driveVars, dateVars, sideVars,
                 tokenVars, compareVars>>

\* The client of the store has its credentials: isReadySubject emits true.
GoogleBecomesReady ==
  /\ "google" \notin clientsReady
  /\ clientsReady' = clientsReady \cup {"google"}
  /\ UNCHANGED <<engineVars, boschVars, driveVars, dateVars, pollers, tokenVars, compareVars>>

\* The connection of the event source has its token.
BoschBecomesReady ==
  /\ "bosch" \notin clientsReady
  /\ clientsReady' = clientsReady \cup {"bosch"}
  /\ UNCHANGED <<engineVars, boschVars, driveVars, dateVars, pollers, tokenVars, compareVars>>

\* (await getEvents()).find(e => e.id === eventId): <<>> for undefined
getEvent(events, eventId) ==
  LET found == SelectSeq(events, LAMBDA e : e.id = eventId)
  IN  IF found = <<>> THEN <<>> ELSE <<Head(found)>>

\* requestEvent?.videoClipUploadStatus: undefined when there is no such event
getEventStatus(events, eventId) ==
  LET requestEvent == getEvent(events, eventId)
  IN  IF requestEvent = <<>> THEN "undefined"
      ELSE requestEvent[1].videoClipUploadStatus

\* A switch without the default case of checkIfDownloadDone: every status but
\* Done polls again.
checkIfDownloadDone_DefaultPollsAgain(id, eventStatus) ==
  IF eventStatus = "Done"
    THEN [id |-> id, state |-> "true", timeout |-> 0, seen |-> eventStatus]
  ELSE [id |-> id, state |-> "waiting", timeout |-> 5, seen |-> eventStatus]

\* The switch of checkIfDownloadDone: what becomes of the poller of an event
\* when it has read eventStatus. Done resolves the promise with true, Pending
\* arms the timer again, anything else resolves it with false.
checkIfDownloadDone(id, eventStatus) ==
  IF eventStatus = "Done"
    THEN [id |-> id, state |-> "true", timeout |-> 0, seen |-> eventStatus]
  ELSE IF eventStatus = "Pending"
    THEN [id |-> id, state |-> "waiting", timeout |-> 5, seen |-> eventStatus]
  ELSE [id |-> id, state |-> "false", timeout |-> 0, seen |-> eventStatus]

\* The timer of a poller fires. When getEvents throws, the async callback
\* rejects: the promise of the poller is never resolved and no timer is armed.
PollExportStatus ==
  /\ \E poller \in pollers, isListed \in BOOLEAN :
       /\ poller.state = "waiting"
       /\ pollers' = (pollers \ {poller}) \cup
            {IF isListed
               THEN checkIfDownloadDone(poller.id, getEventStatus(boschEvents, poller.id))
               ELSE [id |-> poller.id, state |-> "lost", timeout |-> 0,
                     seen |-> "error"]}
  /\ UNCHANGED <<engineVars, boschVars, driveVars, dateVars, clientsReady, tokenVars, compareVars>>

\* No date string has been handed to toDate.
NoDate == [local |-> 0, offset |-> 0, zone |-> ""]

----------------------------------------------------------------------------
(* The small world: a few events, every step of the loop and of the services *)

InitialEvents == 0..1
OtherUsage == {0, 4 * aMegaByte, 8 * aMegaByte}

Init ==
  /\ pc = "start"
  /\ nextEventId \in InitialEvents
  /\ boschEvents \in
       {[i \in 1..nextEventId |-> RecordedEvent(nextEventId + 1 - i, status[i])] :
          status \in [1..nextEventId -> {"Local", "Pending", "Done"}]}
  /\ exportRequested = {}
  /\ favoriteCalls = {}
  /\ \E n \in 0..Len(OldClips) : drive = SubSeq(OldClips, 1, n)
  /\ \E other \in OtherUsage : usage = other + SumSizes(drive)
  /\ videosOnDrive = <<>>
  /\ allEventsEncounted = <<>>
  /\ scheduled = <<>>
  /\ auditFile = <<>>
  /\ dateInput = NoDate
  /\ dateOutput = <<>>
  /\ batch = <<>>
  /\ index = 0
  /\ success = 0
  /\ failure = 0
  /\ localFiles = {}
  /\ evicted = <<>>
  /\ tick = NoTick
  /\ calls = <<>>
  /\ clientsReady = {}
  /\ pollers = {}
  /\ tokens = <<>>
  /\ now = 0
  /\ tokenCall = NoCall
  /\ compareInput = <<>>
  /\ compareOutput = <<>>

Next ==
  \/ GoogleBecomesReady
  \/ BoschBecomesReady
  \/ StartAwaitGoogle
  \/ StartAwaitBosch
  \/ Start
  \/ TickAudit
  \/ TickClassify
  \/ IdleRefresh
  \/ ArchiveDownload
  \/ ArchiveEnsureSpace
  \/ ArchiveUpload
  \/ RemoteStartExport
  \/ RemoteFinishExport
  \/ CameraRecordsEvent

Spec == Init /\ [][Next]_vars

----------------------------------------------------------------------------
(* One tick on a drawn input: the state right after the audit step of a   *)
(* tick, for a drawn event list and a drawn SyncState.                     *)

ListedTimestamps ==
  {[local |-> 24, offset |-> 4, suffix |-> ""],
   [local |-> 23, offset |-> 2, suffix |-> ""]}

ListedTypes == {"MOVEMENT", "AUDIO_ALARM", "TROUBLE_CONNECT"}

\* Short listings in any order, of any type and status.
DrawnListings ==
  UNION {
    {[i \in 1..n |->
        [id |-> i, eventType |-> type[i], timestamp |-> timestamp[i],
         isFavorite |-> FALSE, videoClipUploadStatus |-> status[i]]] :
       type \in [1..n -> ListedTypes],
       status \in [1..n -> EventVideoClipUploadStatus],
       timestamp \in [1..n -> ListedTimestamps]} :
    n \in 0..MaxListed}

DrawnSnapshots ==
  {<<>>,
   <<[local |-> 12, offset |-> 2, suffix |-> ".mp4"],
     [local |-> 24, offset |-> 4, suffix |-> ".mp4"]>>}

\* A backlog given by its numbers: requestable, ready and pending events that
\* are not favorites, a filler of further non-favorites of one status, and
\* favorites of that status that are either the oldest or the newest events.
\* The event source lists the newest first.
Backlog(favorites, toRequest, ready, pending, filler, fillerStatus, favoritesOldest) ==
  LET n == favorites + toRequest + ready + pending + filler
      isFavorite(k) == IF favoritesOldest THEN k <= favorites ELSE k > n - favorites
      rest(k) == IF favoritesOldest THEN k - favorites ELSE k
      status(k) ==
        IF isFavorite(k) THEN fillerStatus
        ELSE IF rest(k) <= toRequest
          THEN (IF rest(k) % 2 = 1 THEN "Local" ELSE "Unavailable")
        ELSE IF rest(k) <= toRequest + ready THEN "Done"
        ELSE IF rest(k) <= toRequest + ready + pending THEN "Pending"
        ELSE fillerStatus
      event(k) == [RecordedEvent(k, status(k)) EXCEPT !.isFavorite = isFavorite(k)]
  IN  [i \in 1..n |-> event(n + 1 - i)]

\* Short backlogs around the admission cap, and long ones around the two
\* thresholds of the retention guard.
DrawnBacklogs ==
  {Backlog(0, toRequest, ready, pending, 0, "Pending", TRUE) :
     toRequest \in 0..MaxRequestable,
     ready \in 0..1,
     pending \in {0, maxNumberOfManualRequest - 1, maxNumberOfManualRequest,
                  maxNumberOfManualRequest + 1}}
  \cup
  {Backlog(favorites, toRequest, ready, pending, filler, fillerStatus, favoritesOldest) :
     favorites \in {maxNumberOfFavoriteEvent - 1, maxNumberOfFavoriteEvent,
                    maxNumberOfFavoriteEvent + 1},
     toRequest \in 0..1,
     ready \in 0..1,
     pending \in {0, maxNumberOfManualRequest},
     filler \in {maxNumberOfNotFavoriteEvent - 1, maxNumberOfNotFavoriteEvent},
     fillerStatus \in {"Pending", "Local"},
     favoritesOldest \in BOOLEAN}

InitTick ==
  /\ pc = "classify"
  /\ \E listing \in DrawnListings \cup DrawnBacklogs, snapshot \in DrawnSnapshots :
       /\ Len(listing) > MaxListed => snapshot = <<>>
       /\ boschEvents = listing
       /\ videosOnDrive = snapshot
  /\ nextEventId = Len(boschEvents)
  /\ exportRequested = {}
  /\ favoriteCalls = {}
  /\ drive = [i \in DOMAIN videosOnDrive |->
                [name |-> videosOnDrive[i], size |-> 2 * aMegaByte]]
  /\ usage = SumSizes(drive)
  /\ allEventsEncounted =
       IF Len(boschEvents) > MaxListed
         THEN [i \in DOMAIN boschEvents |-> boschEvents[i].timestamp]
         ELSE NewSet([i \in DOMAIN boschEvents |-> boschEvents[i].timestamp])
  /\ scheduled = <<>>
  /\ auditFile = <<>>
  /\ dateInput = NoDate
  /\ dateOutput = <<>>
  /\ batch = <<>>
  /\ index = 0
  /\ success = 0
  /\ failure = 0
  /\ localFiles = {}
  /\ evicted = <<>>
  /\ tick = NoTick
  /\ calls = <<>>
  /\ clientsReady = {"google", "bosch"}
  /\ pollers = {}
  /\ tokens = <<>>
  /\ now = 0
  /\ tokenCall = NoCall
  /\ compareInput = <<>>
  /\ compareOutput = <<>>

NextTick ==
  \/ TickClassify
  \/ ArchiveDownload
  \/ ArchiveEnsureSpace
  \/ ArchiveUpload
  \/ RemoteApplyFavorite

SpecTick == InitTick /\ [][NextTick]_vars

----------------------------------------------------------------------------
(* The retention guard over several ticks: long backlogs of Pending events *)
(* at the thresholds of the guard, the loop, and an event source that      *)
(* applies the favorite changes in its own time.                           *)

DrawnGuardBacklogs ==
  {Backlog(favorites, 0, 0, 0, filler, "Pending", favoritesOldest) :
     favorites \in {maxNumberOfFavoriteEvent - 2, maxNumberOfFavoriteEvent - 1,
                    maxNumberOfFavoriteEvent},
     filler \in {maxNumberOfNotFavoriteEvent, maxNumberOfNotFavoriteEvent + 1},
     favoritesOldest \in BOOLEAN}

InitFavorite ==
  /\ pc = "classify"
  /\ boschEvents \in DrawnGuardBacklogs
  /\ nextEventId = Len(boschEvents)
  /\ exportRequested = {}
  /\ favoriteCalls = {}
  /\ drive = <<>>
  /\ usage = 0
  /\ videosOnDrive = <<>>
  /\ allEventsEncounted = [i \in DOMAIN boschEvents |-> boschEvents[i].timestamp]
  /\ scheduled = <<>>
  /\ auditFile = <<>>
  /\ dateInput = NoDate
  /\ dateOutput = <<>>
  /\ batch = <<>>
  /\ index = 0
  /\ success = 0
  /\ failure = 0
  /\ localFiles = {}
  /\ evicted = <<>>
  /\ tick = NoTick
  /\ calls = <<>>
  /\ clientsReady = {"google", "bosch"}
  /\ pollers = {}
  /\ tokens = <<>>
  /\ now = 0
  /\ tokenCall = NoCall
  /\ compareInput = <<>>
  /\ compareOutput = <<>>

NextFavorite ==
  \/ TickAudit
  \/ TickClassify
  \/ RemoteApplyFavorite

SpecFavorite == InitFavorite /\ [][NextFavorite]_vars

----------------------------------------------------------------------------
(* The request pipeline: the loop, a camera that keeps recording and an    *)
(* event source that starts the exports it was asked for in its own time.  *)
(* No clip reaches Done, so that the loop never archives.                  *)

MaxRecorded == 4

CameraRecordsMore == CameraRecords(MaxRecorded)

RemoteExportFails == ExportEnds({"Unavailable"})

InitRequests ==
  /\ pc = "start"
  /\ nextEventId \in InitialEvents
  /\ boschEvents \in
       {[i \in 1..nextEventId |-> RecordedEvent(nextEventId + 1 - i, status[i])] :
          status \in [1..nextEventId -> {"Local", "Pending"}]}
  /\ exportRequested = {}
  /\ favoriteCalls = {}
  /\ drive = <<>>
  /\ usage = 0
  /\ videosOnDrive = <<>>
  /\ allEventsEncounted = <<>>
  /\ scheduled = <<>>
  /\ auditFile = <<>>
  /\ dateInput = NoDate
  /\ dateOutput = <<>>
  /\ batch = <<>>
  /\ index = 0
  /\ success = 0
  /\ failure = 0
  /\ localFiles = {}
  /\ evicted = <<>>
  /\ tick = NoTick
  /\ calls = <<>>
  /\ clientsReady = {}
  /\ pollers = {}
  /\ tokens = <<>>
  /\ now = 0
  /\ tokenCall = NoCall
  /\ compareInput = <<>>
  /\ compareOutput = <<>>

NextRequests ==
  \/ GoogleBecomesReady
  \/ BoschBecomesReady
  \/ StartAwaitGoogle
  \/ StartAwaitBosch
  \/ Start
  \/ TickAudit
  \/ TickClassify
  \/ IdleRefresh
  \/ RemoteStartExport
  \/ RemoteExportFails
  \/ CameraRecordsMore

SpecRequests == InitRequests /\ [][NextRequests]_vars

----------------------------------------------------------------------------
(* utils/date-formatting: toDate, applied to drawn date strings.  A date   *)
(* string is a record [local, offset, zone]: the wall-clock reading and    *)
(* the UTC offset in half hours, and the bracketed zone name that follows  *)
(* the offset ("" when there is none).                                     *)

\* date-fns parseISO: the time zone token is everything from the sign on; a
\* token that is not exactly +hh:mm, such as '+01:00[Europe/Berlin]', counts
\* as no offset, and the reading is taken as UTC.
parseISO(date) ==
  date.local - (IF date.zone = "" THEN date.offset ELSE 0)

\* date-fns addHours, in half hours
addHours(amount, date) == date + amount * 2

toDate(date) == addHours(-1, parseISO(date))

MaxDateLocal == 47

\* UTC, +01:00 and +02:00
DateOffsets == {0, 2, 4}
DateZones == {"", "[Europe/Berlin]"}

DrawnDates ==
  {[local |-> local, offset |-> offset, zone |-> zone] :
     local \in 0..MaxDateLocal, offset \in DateOffsets, zone \in DateZones}

InitDates ==
  /\ pc = "start"
  /\ boschEvents = <<>>
  /\ nextEventId = 0
  /\ exportRequested = {}
  /\ favoriteCalls = {}
  /\ drive = <<>>
  /\ usage = 0
  /\ videosOnDrive = <<>>
  /\ allEventsEncounted = <<>>
  /\ scheduled = <<>>
  /\ auditFile = <<>>
  /\ batch = <<>>
  /\ index = 0
  /\ success = 0
  /\ failure = 0
  /\ localFiles = {}
  /\ evicted = <<>>
  /\ tick = NoTick
  /\ calls = <<>>
  /\ dateInput \in DrawnDates
  /\ dateOutput = <<>>
  /\ clientsReady = {}
  /\ pollers = {}
  /\ tokens = <<>>
  /\ now = 0
  /\ tokenCall = NoCall
  /\ compareInput = <<>>
  /\ compareOutput = <<>>

ConvertDate ==
  /\ dateOutput = <<>>
  /\ dateOutput' = <<toDate(dateInput)>>
  /\ UNCHANGED <<engineVars, boschVars, driveVars, dateInput, sideVars, tokenVars, compareVars>>

NextDates == ConvertDate

SpecDates == InitDates /\ [][NextDates]_vars

----------------------------------------------------------------------------
(* The export status pollers: the small world with one recorded event that *)
(* is still on the camera, an empty store, and the timers of the pollers.  *)

InitPoller ==
  /\ pc = "start"
  /\ nextEventId = 1
  /\ boschEvents = <<RecordedEvent(1, "Local")>>
  /\ exportRequested = {}
  /\ favoriteCalls = {}
  /\ drive = <<>>
  /\ usage = 0
  /\ videosOnDrive = <<>>
  /\ allEventsEncounted = <<>>
  /\ scheduled = <<>>
  /\ auditFile = <<>>
  /\ dateInput = NoDate
  /\ dateOutput = <<>>
  /\ batch = <<>>
  /\ index = 0
  /\ success = 0
  /\ failure = 0
  /\ localFiles = {}
  /\ evicted = <<>>
  /\ tick = NoTick
  /\ calls = <<>>
  /\ clientsReady = {}
  /\ pollers = {}
  /\ tokens = <<>>
  /\ now = 0
  /\ tokenCall = NoCall
  /\ compareInput = <<>>
  /\ compareOutput = <<>>

NextPoller ==
  \/ GoogleBecomesReady
  \/ BoschBecomesReady
  \/ StartAwaitGoogle
  \/ StartAwaitBosch
  \/ Start
  \/ TickAudit
  \/ TickClassify
  \/ IdleRefresh
  \/ ArchiveDownload
  \/ ArchiveEnsureSpace
  \/ ArchiveUpload
  \/ RemoteStartExport
  \/ RemoteFinishExport
  \/ PollExportStatus

SpecPoller == InitPoller /\ [][NextPoller]_vars

----------------------------------------------------------------------------
(* The store under other hands: the loop and the Archiver on one event,    *)
(* while the owner of the drive frees space or deletes a clip by hand.     *)

\* Data of the drive that is not a clip of this program goes: the usage
\* falls, the listing stays.
ExternalFreesSpace ==
  /\ usage - SumSizes(drive) >= 4 * aMegaByte
  /\ usage' = usage - 4 * aMegaByte
  /\ UNCHANGED <<engineVars, boschVars, drive, dateVars, sideVars, tokenVars, compareVars>>

\* A clip is deleted on the drive by hand.
ExternalDelete ==
  /\ \E at \in DOMAIN drive :
       /\ drive' = RemoveAt(drive, at)
       /\ usage' = usage - drive[at].size
  /\ UNCHANGED <<engineVars, boschVars, dateVars, sideVars, tokenVars, compareVars>>

InitStore ==
  /\ pc = "start"
  /\ nextEventId = 1
  /\ \E status \in {"Pending", "Done"} : boschEvents = <<RecordedEvent(1, status)>>
  /\ exportRequested = {}
  /\ favoriteCalls = {}
  /\ \E n \in 0..Len(OldClips) : drive = SubSeq(OldClips, 1, n)
  /\ \E other \in OtherUsage : usage = other + SumSizes(drive)
  /\ videosOnDrive = <<>>
  /\ allEventsEncounted = <<>>
  /\ scheduled = <<>>
  /\ auditFile = <<>>
  /\ dateInput = NoDate
  /\ dateOutput = <<>>
  /\ batch = <<>>
  /\ index = 0
  /\ success = 0
  /\ failure = 0
  /\ localFiles = {}
  /\ evicted = <<>>
  /\ tick = NoTick
  /\ calls = <<>>
  /\ clientsReady = {}
  /\ pollers = {}
  /\ tokens = <<>>
  /\ now = 0
  /\ tokenCall = NoCall
  /\ compareInput = <<>>
  /\ compareOutput = <<>>

NextStore ==
  \/ GoogleBecomesReady
  \/ BoschBecomesReady
  \/ StartAwaitGoogle
  \/ StartAwaitBosch
  \/ Start
  \/ TickAudit
  \/ TickClassify
  \/ IdleRefresh
  \/ ArchiveDownload
  \/ ArchiveEnsureSpace
  \/ ArchiveUpload
  \/ RemoteFinishExport
  \/ ExternalFreesSpace
  \/ ExternalDelete

SpecStore == InitStore /\ [][NextStore]_vars

\* The event loop runs every callback that is due: a timer that is armed
\* fires, an await whose promise has settled continues.
SpecStoreFair ==
  /\ SpecStore
  /\ WF_vars(StartAwaitGoogle) /\ WF_vars(StartAwaitBosch) /\ WF_vars(Start)
  /\ WF_vars(TickAudit) /\ WF_vars(TickClassify) /\ WF_vars(IdleRefresh)
  /\ WF_vars(ArchiveDownload) /\ WF_vars(ArchiveEnsureSpace) /\ WF_vars(ArchiveUpload)

----------------------------------------------------------------------------
(* Progress: a fixed set of events, a store with room for all their clips, *)
(* the loop, the Archiver and an event source whose exports end as Done.   *)

\* The ids of the events: their clips, 3 MB and 6 MB, fit in the store with
\* the safety margin to spare.
ProgressIds == 1..2

RemoteExportDone == ExportEnds({"Done"})

InitProgress ==
  /\ pc = "start"
  /\ nextEventId = Cardinality(ProgressIds)
  /\ \E status \in [ProgressIds ->
                     {"Unknown", "Local", "Pending", "Done", "Unavailable"}] :
       boschEvents = [i \in ProgressIds |->
                        RecordedEvent(Cardinality(ProgressIds) + 1 - i,
                                      status[Cardinality(ProgressIds) + 1 - i])]
  /\ exportRequested = {}
  /\ favoriteCalls = {}
  /\ drive = <<>>
  /\ usage = 0
  /\ videosOnDrive = <<>>
  /\ allEventsEncounted = <<>>
  /\ scheduled = <<>>
  /\ auditFile = <<>>
  /\ dateInput = NoDate
  /\ dateOutput = <<>>
  /\ batch = <<>>
  /\ index = 0
  /\ success = 0
  /\ failure = 0
  /\ localFiles = {}
  /\ evicted = <<>>
  /\ tick = NoTick
  /\ calls = <<>>
  /\ clientsReady = {}
  /\ pollers = {}
  /\ tokens = <<>>
  /\ now = 0
  /\ tokenCall = NoCall
  /\ compareInput = <<>>
  /\ compareOutput = <<>>

NextProgress ==
  \/ GoogleBecomesReady
  \/ BoschBecomesReady
  \/ StartAwaitGoogle
  \/ StartAwaitBosch
  \/ Start
  \/ TickAudit
  \/ TickClassify
  \/ IdleRefresh
  \/ ArchiveDownload
  \/ ArchiveEnsureSpace
  \/ ArchiveUpload
  \/ RemoteStartExport
  \/ RemoteExportDone

SpecProgress == InitProgress /\ [][NextProgress]_vars

\* The event loop runs every callback that is due, both clients get their
\* credentials, and the event source starts and ends every export it was
\* asked for.
SpecProgressFair ==
  /\ SpecProgress
  /\ WF_vars(GoogleBecomesReady) /\ WF_vars(BoschBecomesReady)
  /\ WF_vars(StartAwaitGoogle) /\ WF_vars(StartAwaitBosch) /\ WF_vars(Start)
  /\ WF_vars(TickAudit) /\ WF_vars(TickClassify) /\ WF_vars(IdleRefresh)
  /\ WF_vars(ArchiveDownload) /\ WF_vars(ArchiveEnsureSpace) /\ WF_vars(ArchiveUpload)
  /\ WF_vars(RemoteStartExport) /\ WF_vars(RemoteExportDone)

----------------------------------------------------------------------------
(* Requests for several clips: two requestable events, the loop, the       *)
(* Archiver and an event source that starts and ends exports, or does not. *)

InitStarve ==
  /\ pc = "start"
  /\ nextEventId = Cardinality(ProgressIds)
  /\ \E status \in [ProgressIds -> {"Local", "Unavailable"}] :
       boschEvents = [i \in ProgressIds |->
                        RecordedEvent(Cardinality(ProgressIds) + 1 - i,
                                      status[Cardinality(ProgressIds) + 1 - i])]
  /\ exportRequested = {}
  /\ favoriteCalls = {}
  /\ drive = <<>>
  /\ usage = 0
  /\ videosOnDrive = <<>>
  /\ allEventsEncounted = <<>>
  /\ scheduled = <<>>
  /\ auditFile = <<>>
  /\ dateInput = NoDate
  /\ dateOutput = <<>>
  /\ batch = <<>>
  /\ index = 0
  /\ success = 0
  /\ failure = 0
  /\ localFiles = {}
  /\ evicted = <<>>
  /\ tick = NoTick
  /\ calls = <<>>
  /\ clientsReady = {}
  /\ pollers = {}
  /\ tokens = <<>>
  /\ now = 0
  /\ tokenCall = NoCall
  /\ compareInput = <<>>
  /\ compareOutput = <<>>

NextStarve ==
  \/ GoogleBecomesReady
  \/ BoschBecomesReady
  \/ StartAwaitGoogle
  \/ StartAwaitBosch
  \/ Start
  \/ TickAudit
  \/ TickClassify
  \/ IdleRefresh
  \/ ArchiveDownload
  \/ ArchiveEnsureSpace
  \/ ArchiveUpload
  \/ RemoteStartExport
  \/ RemoteFinishExport

SpecStarve == InitStarve /\ [][NextStarve]_vars

\* The event loop runs every callback that is due and both clients get their
\* credentials; the event source is free to leave a request unanswered.
SpecStarveFair ==
  /\ SpecStarve
  /\ WF_vars(GoogleBecomesReady) /\ WF_vars(BoschBecomesReady)
  /\ WF_vars(StartAwaitGoogle) /\ WF_vars(StartAwaitBosch) /\ WF_vars(Start)
  /\ WF_vars(TickAudit) /\ WF_vars(TickClassify) /\ WF_vars(IdleRefresh)
  /\ WF_vars(ArchiveDownload) /\ WF_vars(ArchiveEnsureSpace) /\ WF_vars(ArchiveUpload)

----------------------------------------------------------------------------
(* The connection to the event source: the stored tokens, the clock, and   *)
(* the token endpoint that answers a request with tokens or with none.     *)

MaxNow == 3

\* What requestTokenToBosch resolves to: tokens the endpoint issued, or
\* undefined after a failed request.
TokenResponses ==
  {<<>>} \cup
  {<<[access_token |-> t, refresh_token |-> t, expires_in |-> e]>> :
     t \in {"t1", "t2"}, e \in 1..2}

ClockTicks ==
  /\ now < MaxNow
  /\ now' = now + 1
  /\ UNCHANGED <<tokens, tokenCall, engineVars, boschVars, driveVars, dateVars, sideVars,
                 compareVars>>

\* firstSetUpCredentials: the token file is read and refreshTokens is called
\* (and not awaited), or the file cannot be read and generateNewTokens is.
FirstSetUpCredentials ==
  /\ tokenCall.op = "constructor"
  /\ \E fileTokens \in TokenResponses :
       IF fileTokens # <<>>
         THEN /\ tokens' = SetTokens(tokens, fileTokens, now)
              /\ tokenCall' = TokenCall("refreshTokens", 1, 0, "running", "", "")
         ELSE /\ tokenCall' = TokenCall("generateNewTokens", 1, 0, "running", "", "")
              /\ UNCHANGED tokens
  /\ UNCHANGED <<now, engineVars, boschVars, driveVars, dateVars, sideVars, compareVars>>

\* One turn of the loop of generateNewTokens; after the last failed try the
\* function returns.
GenerateNewTokensRequest ==
  /\ tokenCall.op = "generateNewTokens"
  /\ tokenCall.outcome = "running"
  /\ \E newTokens \in TokenResponses :
       IF newTokens # <<>>
         THEN /\ tokens' = SetTokens(tokens, newTokens, now)
              /\ clientsReady' = clientsReady \cup {"bosch"}
              /\ tokenCall' = [tokenCall EXCEPT !.requests = @ + 1,
                                                !.outcome = "returned"]
         ELSE /\ tokenCall' =
                   IF tokenCall.tryNumber < maxNumberOfTry
                     THEN [tokenCall EXCEPT !.requests = @ + 1, !.tryNumber = @ + 1]
                     ELSE [tokenCall EXCEPT !.requests = @ + 1, !.outcome = "returned"]
              /\ UNCHANGED <<tokens, clientsReady>>
  /\ UNCHANGED <<now, pollers, engineVars, boschVars, driveVars, dateVars, compareVars>>

\* The loop of refreshTokens dropping the stored tokens when it gives up.
RefreshTokensRequest_ForgetsTokens ==
  /\ tokenCall.op \in {"refreshTokens", "getAccessToken"}
  /\ tokenCall.outcome = "running"
  /\ \E rejects \in BOOLEAN, newTokens \in TokenResponses :
       IF rejects
         THEN /\ tokenCall' = [tokenCall EXCEPT !.requests = @ + 1,
                                                !.outcome = "thrown",
                                                !.error = "TypeError"]
              /\ UNCHANGED <<tokens, clientsReady>>
       ELSE IF newTokens # <<>>
         THEN /\ tokens' = SetTokens(tokens, newTokens, now)
              /\ clientsReady' = clientsReady \cup {"bosch"}
              /\ tokenCall' = [tokenCall EXCEPT !.requests = @ + 1,
                                                !.outcome = "returned",
                                                !.value = tokens'[1].access_token]
       ELSE IF tokenCall.tryNumber < maxNumberOfTry
         THEN /\ tokenCall' = [tokenCall EXCEPT !.requests = @ + 1, !.tryNumber = @ + 1]
              /\ UNCHANGED <<tokens, clientsReady>>
       ELSE /\ tokenCall' = [tokenCall EXCEPT !.requests = @ + 1,
                                              !.outcome = "thrown",
                                              !.error = "All refresh token request failed"]
            /\ tokens' = <<>>
            /\ UNCHANGED clientsReady
  /\ UNCHANGED <<now, pollers, engineVars, boschVars, driveVars, dateVars, compareVars>>

\* One turn of the loop of refreshTokens, called by firstSetUpCredentials or
\* awaited by getAccessToken: requestTokenToBosch, then the tokens are stored
\* and ready is signalled, or the next try begins, or the loop is over and
\* the function throws. requestTokenToBosch itself rejects when the error it
\* catches has no response to log.
RefreshTokensRequest ==
  /\ tokenCall.op \in {"refreshTokens", "getAccessToken"}
  /\ tokenCall.outcome = "running"
  /\ \E rejects \in BOOLEAN, newTokens \in TokenResponses :
       IF rejects
         THEN /\ tokenCall' = [tokenCall EXCEPT !.requests = @ + 1,
                                                !.outcome = "thrown",
                                                !.error = "TypeError"]
              /\ UNCHANGED <<tokens, clientsReady>>
       ELSE IF newTokens # <<>>
         THEN /\ tokens' = SetTokens(tokens, newTokens, now)
              /\ clientsReady' = clientsReady \cup {"bosch"}
              /\ tokenCall' = [tokenCall EXCEPT !.requests = @ + 1,
                                                !.outcome = "returned",
                                                !.value = tokens'[1].access_token]
       ELSE IF tokenCall.tryNumber < maxNumberOfTry
         THEN /\ tokenCall' = [tokenCall EXCEPT !.requests = @ + 1, !.tryNumber = @ + 1]
              /\ UNCHANGED <<tokens, clientsReady>>
       ELSE /\ tokenCall' = [tokenCall EXCEPT !.requests = @ + 1,
                                              !.outcome = "thrown",
                                              !.error = "All refresh token request failed"]
            /\ UNCHANGED <<tokens, clientsReady>>
  /\ UNCHANGED <<now, pollers, engineVars, boschVars, driveVars, dateVars, compareVars>>

\* getAccessToken, called once the invocation before it is over, up to its
\* return, its throw or its await of refreshTokens.
GetAccessToken ==
  /\ tokenCall.op # "constructor"
  /\ tokenCall.outcome # "running"
  /\ tokenCall' =
       IF tokens # <<>> /\ isValide(tokens[1], now)
         THEN TokenCall("getAccessToken", 0, 0, "returned", tokens[1].access_token, "")
       ELSE IF tokens # <<>>
         THEN TokenCall("getAccessToken", 1, 0, "running", "", "")
       ELSE TokenCall("getAccessToken", 0, 0, "thrown", "", "No token are available")
  /\ UNCHANGED <<tokens, now, engineVars, boschVars, driveVars, dateVars, sideVars,
                 compareVars>>

InitTokens ==
  /\ pc = "start"
  /\ boschEvents = <<>>
  /\ nextEventId = 0
  /\ exportRequested = {}
  /\ favoriteCalls = {}
  /\ drive = <<>>
  /\ usage = 0
  /\ videosOnDrive = <<>>
  /\ allEventsEncounted = <<>>
  /\ scheduled = <<>>
  /\ auditFile = <<>>
  /\ dateInput = NoDate
  /\ dateOutput = <<>>
  /\ batch = <<>>
  /\ index = 0
  /\ success = 0
  /\ failure = 0
  /\ localFiles = {}
  /\ evicted = <<>>
  /\ tick = NoTick
  /\ calls = <<>>
  /\ clientsReady = {}
  /\ pollers = {}
  /\ tokens = <<>>
  /\ now = 0
  /\ tokenCall = NoCall
  /\ compareInput = <<>>
  /\ compareOutput = <<>>

NextTokens ==
  \/ ClockTicks
  \/ FirstSetUpCredentials
  \/ GenerateNewTokensRequest
  \/ RefreshTokensRequest
  \/ GetAccessToken

SpecTokens == InitTokens /\ [][NextTokens]_vars

----------------------------------------------------------------------------
(* The comparators of the event API module, in each of its revisions, on   *)
(* drawn pairs of events.                                                  *)

ComparedEvents ==
  {[id |-> 1, eventType |-> "MOVEMENT",
    timestamp |-> [local |-> local, offset |-> offset, suffix |-> ""],
    isFavorite |-> FALSE, videoClipUploadStatus |-> "Done"] :
     local \in 22..25, offset \in Offsets}

\* What one revision returns for the pair and for the pair exchanged.
Compared(revision, asc, desc, ascExchanged) ==
  [revision |-> revision, asc |-> asc, desc |-> desc, ascExchanged |-> ascExchanged]

CompareEvents ==
  /\ compareInput # <<>>
  /\ compareOutput = <<>>
  /\ compareOutput' =
       LET a == compareInput[1]
           b == compareInput[2]
       IN  <<Compared("bosch/bosch-api.ts", eventsByAscTimestamp(a, b),
                      eventsByDescTimestamp(a, b), eventsByAscTimestamp(b, a)),
             Compared("boach-api.ts", boachApi_eventsByAscTimestamp(a, b),
                      boachApi_eventsByDescTimestamp(a, b),
                      boachApi_eventsByAscTimestamp(b, a)),
             Compared("google-drive-api.ts", googleDriveApi_eventsByAscTimestamp(a, b),
                      googleDriveApi_eventsByDescTimestamp(a, b),
                      googleDriveApi_eventsByAscTimestamp(b, a))>>
  /\ UNCHANGED <<compareInput, engineVars, boschVars, driveVars, dateVars, sideVars,
                 tokenVars>>

InitCompare ==
  /\ pc = "start"
  /\ boschEvents = <<>>
  /\ nextEventId = 0
  /\ exportRequested = {}
  /\ favoriteCalls = {}
  /\ drive = <<>>
  /\ usage = 0
  /\ videosOnDrive = <<>>
  /\ allEventsEncounted = <<>>
  /\ scheduled = <<>>
  /\ auditFile = <<>>
  /\ dateInput = NoDate
  /\ dateOutput = <<>>
  /\ batch = <<>>
  /\ index = 0
  /\ success = 0
  /\ failure = 0
  /\ localFiles = {}
  /\ evicted = <<>>
  /\ tick = NoTick
  /\ calls = <<>>
  /\ clientsReady = {}
  /\ pollers = {}
  /\ tokens = <<>>
  /\ now = 0
  /\ tokenCall = NoCall
  /\ compareInput \in ComparedEvents \X ComparedEvents
  /\ compareOutput = <<>>

SpecCompare == InitCompare /\ [][CompareEvents]_vars

----------------------------------------------------------------------------
(* Properties of one tick.  They are stated over the listing and the       *)
(* SyncState the tick reads and over the calls it makes, with sets and     *)
(* instants rather than with the operators of the engine.                  *)

\* The instant a timestamp string denotes.
Instant(timestamp) == timestamp.local - timestamp.offset

\* `<timestamp>.mp4`
ClipName(event) ==
  [local |-> event.timestamp.local, offset |-> event.timestamp.offset,
   suffix |-> ".mp4"]

IsEligible(event, snapshot) ==
  /\ event.eventType \in {"MOVEMENT", "AUDIO_ALARM"}
  /\ event.videoClipUploadStatus \notin {"Unknown", "Permanently_unavailable"}
  /\ ClipName(event) \notin SeqToSet(snapshot)

\* The events of the current listing whose clip is not yet on the drive.
NotYetOnDrive == {e \in SeqToSet(boschEvents) : IsEligible(e, videosOnDrive)}

ReadyBucket == {e \in NotYetOnDrive : e.videoClipUploadStatus = "Done"}
RequestableBucket ==
  {e \in NotYetOnDrive : e.videoClipUploadStatus \in {"Local", "Unavailable"}}
PendingBucket == {e \in NotYetOnDrive : e.videoClipUploadStatus = "Pending"}

CallsOf(made, op) == SelectSeq(made, LAMBDA c : c.op = op)

\* A step that is the decision of one tick: the listing was read and
\* classified.
ClassifyStep == pc = "classify" /\ pc' \notin {"classify", "stopped"}

\* The same buckets, read from the working list the last tick recorded.
WorkingWith(statuses) ==
  SelectSeq(tick.working, LAMBDA e : e.videoClipUploadStatus \in statuses)
WorkingFavorites == SelectSeq(tick.working, LAMBDA e : e.isFavorite)
WorkingNonFavorites == SelectSeq(tick.working, LAMBDA e : ~e.isFavorite)

\* C1: in a tick whose ready bucket is not empty only the Archiver runs: the
\* tick takes the archive branch with the ready clips as its batch, and it
\* issues no requestClipEvents and no setEventFavoriteStatus, whatever the
\* requestable and pending buckets hold.
ArchiveHasPriority ==
  [][(ClassifyStep /\ ReadyBucket # {}) =>
        /\ tick'.branch = "archive"
        /\ pc' = "download"
        /\ SeqToSet(batch') = ReadyBucket
        /\ CallsOf(calls', "requestClipEvents") = <<>>
        /\ CallsOf(calls', "setEventFavoriteStatus") = <<>>
        /\ exportRequested' = exportRequested
        /\ favoriteCalls' = favoriteCalls]_vars

\* An archive tick taken although a request was admissible and the retention
\* guard's condition held.
ArchiveHasPriorityWitness ==
  /\ tick.branch = "archive"
  /\ pc = "download"
  /\ Len(WorkingWith({"Done"})) > 0
  /\ Len(WorkingWith({"Local", "Unavailable"})) > 0
  /\ Len(WorkingWith({"Pending"})) < maxNumberOfManualRequest
  /\ Len(WorkingFavorites) < maxNumberOfFavoriteEvent
  /\ Len(WorkingNonFavorites) >= maxNumberOfNotFavoriteEvent
  /\ exportRequested = {}
  /\ favoriteCalls = {}

\* C2: a tick whose pending bucket holds at least maxNumberOfManualRequest
\* events issues no export request, whatever the size of the requestable
\* bucket, and so does a tick whose requestable bucket is empty.
AdmissionControl ==
  [][(/\ ClassifyStep
      /\ \/ Cardinality(PendingBucket) >= maxNumberOfManualRequest
         \/ RequestableBucket = {}) =>
        /\ CallsOf(calls', "requestClipEvents") = <<>>
        /\ exportRequested' = exportRequested
        /\ tick'.branch # "request"]_vars

\* A tick that had requestable clips and no ready clip, and was refused by the
\* cap alone (the pending bucket holds exactly the cap).
AdmissionControlWitness ==
  /\ tick.branch = "wait"
  /\ Len(WorkingWith({"Pending"})) = maxNumberOfManualRequest
  /\ Len(WorkingWith({"Local", "Unavailable"})) >= 2
  /\ Len(WorkingWith({"Done"})) = 0
  /\ exportRequested = {}
  /\ calls = <<>>

\* C3: every export request a tick issues is for an event of the requestable
\* bucket that no other event of the bucket is newer than.
NewestIsRequested ==
  [][ClassifyStep =>
        \A i \in DOMAIN CallsOf(calls', "requestClipEvents") :
          \E r \in RequestableBucket :
            /\ r.id = CallsOf(calls', "requestClipEvents")[i].id
            /\ \A o \in RequestableBucket :
                 Instant(o.timestamp) <= Instant(r.timestamp)]_vars

\* A request issued out of three requestable clips of three different
\* instants; the newest one was asked for.
NewestIsRequestedWitness ==
  /\ tick.branch = "request"
  /\ Len(WorkingWith({"Local", "Unavailable"})) = 3
  /\ \A i, j \in DOMAIN tick.working :
       i # j => Instant(tick.working[i].timestamp) # Instant(tick.working[j].timestamp)
  /\ \E i \in DOMAIN tick.working :
       /\ tick.requested = <<tick.working[i].id>>
       /\ exportRequested = {tick.working[i].id}
       /\ \A j \in DOMAIN tick.working :
            Instant(tick.working[j].timestamp) <= Instant(tick.working[i].timestamp)

\* C5: the working list of a tick holds exactly the events of the listing
\* whose type is MOVEMENT or AUDIO_ALARM, whose status is neither Unknown nor
\* Permanently_unavailable and whose `<timestamp>.mp4` is not in the
\* SyncState: none of them is dropped or repeated, no other event is
\* returned.
ClassifierFilter ==
  [][ClassifyStep =>
        /\ SeqToSet(tick'.working) = NotYetOnDrive
        /\ Len(tick'.working) = Cardinality(NotYetOnDrive)]_vars

\* A listing of two events of an accepted type and status, one of them
\* Unavailable and kept, the other one dropped because its clip is in the
\* SyncState.
ClassifierFilterWitness ==
  /\ tick.branch \notin {"none", "idle"}
  /\ Len(boschEvents) = 2
  /\ Len(tick.working) = 1
  /\ tick.working[1].videoClipUploadStatus = "Unavailable"
  /\ \E i \in DOMAIN boschEvents :
       /\ boschEvents[i].eventType = "AUDIO_ALARM"
       /\ boschEvents[i].videoClipUploadStatus = "Local"
       /\ SetHas(videosOnDrive, ClipName(boschEvents[i]))

\* C6: the working list of a tick is in ascending order of instants: the
\* instants are non-decreasing along the list.
ClassifierOrdering ==
  \A i, j \in DOMAIN tick.working :
    i < j => Instant(tick.working[i].timestamp) <= Instant(tick.working[j].timestamp)

\* A working list of two events that the listing gave newest first and whose
\* timestamp strings are in the opposite order of their instants.
ClassifierOrderingWitness ==
  /\ Len(tick.working) = 2
  /\ Len(boschEvents) = 2
  /\ tick.working[1] = boschEvents[2]
  /\ tick.working[2] = boschEvents[1]
  /\ tick.working[1].timestamp.local > tick.working[2].timestamp.local
  /\ Instant(tick.working[1].timestamp) < Instant(tick.working[2].timestamp)

\* The tick reaches the retention guard: nothing to archive, no request
\* admissible, and a working list that is not empty.
GuardReached ==
  /\ ClassifyStep
  /\ NotYetOnDrive # {}
  /\ ReadyBucket = {}
  /\ ~(RequestableBucket # {} /\ Cardinality(PendingBucket) < maxNumberOfManualRequest)

\* C7: a tick that reaches the guard with fewer than 25 favorites and at
\* least 200 non-favorites in its working set makes exactly one
\* setEventFavoriteStatus call, on a non-favorite that no other non-favorite
\* is older than; with 25 favorites or more, or fewer than 200 non-favorites,
\* it makes none.
RetentionGuardDecision ==
  [][GuardReached =>
        LET favorites == {e \in NotYetOnDrive : e.isFavorite}
            others == {e \in NotYetOnDrive : ~e.isFavorite}
            promotions == CallsOf(calls', "setEventFavoriteStatus")
        IN  IF /\ Cardinality(favorites) < maxNumberOfFavoriteEvent
               /\ Cardinality(others) >= maxNumberOfNotFavoriteEvent
              THEN /\ Len(promotions) = 1
                   /\ \E e \in others :
                        /\ e.id = promotions[1].id
                        /\ \A o \in others :
                             Instant(e.timestamp) <= Instant(o.timestamp)
                   /\ favoriteCalls' = favoriteCalls \cup {promotions[1].id}
              ELSE /\ promotions = <<>>
                   /\ favoriteCalls' = favoriteCalls]_vars

\* A promotion made with 24 favorites and exactly 200 non-favorites, the
\* favorites being the oldest events of the working list.
RetentionGuardDecisionWitness ==
  /\ tick.branch = "favorite"
  /\ Len(WorkingFavorites) = maxNumberOfFavoriteEvent - 1
  /\ Len(WorkingNonFavorites) = maxNumberOfNotFavoriteEvent
  /\ tick.working[1].isFavorite
  /\ tick.promoted = <<WorkingNonFavorites[1].id>>
  /\ favoriteCalls = {WorkingNonFavorites[1].id}

\* C8: a tick issues a favorite promotion only if its ready bucket is empty
\* and no export request is admissible, the requestable bucket being empty or
\* the pending bucket holding at least maxNumberOfManualRequest events.
GuardIsLowestPriority ==
  [][(/\ ClassifyStep
      /\ \/ CallsOf(calls', "setEventFavoriteStatus") # <<>>
         \/ favoriteCalls' # favoriteCalls) =>
        /\ ReadyBucket = {}
        /\ \/ RequestableBucket = {}
           \/ Cardinality(PendingBucket) >= maxNumberOfManualRequest
        /\ CallsOf(calls', "requestClipEvents") = <<>>]_vars

\* A promotion made while clips were requestable, the cap being reached.
GuardIsLowestPriorityWitness ==
  /\ tick.branch = "favorite"
  /\ tick.promoted # <<>>
  /\ Len(WorkingWith({"Local", "Unavailable"})) > 0
  /\ Len(WorkingWith({"Pending"})) = maxNumberOfManualRequest
  /\ Len(WorkingWith({"Done"})) = 0
  /\ exportRequested = {}

----------------------------------------------------------------------------
(* Properties of the Archiver *)

\* A step of the Archiver inside ensureThatTheDriveHasEnoughSpace (the
\* services' own steps leave the engine and the drive alone).
EnsureStep ==
  /\ pc = "ensure"
  /\ <<engineVars, driveVars>>' # <<engineVars, driveVars>>

\* free quota - safety margin >= size of the incoming file
SpaceConstraintHolds ==
  (DriveLimit - usage) - safetyMargin >= ClipSize(batch[index].id)

IsAscending(names) ==
  \A i, j \in DOMAIN names : i < j => Instant(names[i]) <= Instant(names[j])

SuccessOnlyWhenUploaded ==
  [][(/\ pc \in {"ensure", "upload"}
      /\ \/ success' > success
         \/ ~(SeqToSet(videosOnDrive') \subseteq SeqToSet(videosOnDrive))) =>
        \E i \in DOMAIN calls' :
          /\ calls'[i].op = "uploadVideo"
          /\ calls'[i].ok
          /\ calls'[i].name = ClipName(batch[index])]_vars

----------------------------------------------------------------------------
(* Properties of the request pipeline *)

\* The events whose export the engine has requested and has not yet reached
\* a terminal status.
InFlight ==
  {e \in SeqToSet(boschEvents) :
     /\ e.id \in exportRequested
     /\ e.videoClipUploadStatus \in {"Local", "Unavailable", "Pending"}}

\* C4: at any time the number of export requests in flight, issued by the
\* engine and not yet at a terminal status, is at most
\* maxNumberOfManualRequest, however long the event source takes to turn a
\* requested event to Pending.
InFlightBounded == Cardinality(InFlight) <= maxNumberOfManualRequest

----------------------------------------------------------------------------
(* Properties of a batch of the Archiver *)

\* A step of the Archiver on the current event of the batch.
ArchiverStep ==
  /\ pc \in {"download", "ensure", "upload"}
  /\ engineVars' # engineVars

\* C11: the Archiver issues deleteEvent only for the event it has archived:
\* in the step that issues it, uploadVideo has put `<timestamp>.mp4` of that
\* very event on the store; an event whose download or upload failed is not
\* deleted from the event source.
DeletedOnlyWhenArchived ==
  [][ArchiverStep =>
        \A i \in DOMAIN calls' :
          calls'[i].op = "deleteEvent" =>
            /\ calls'[i].id = batch[index].id
            /\ \E j \in DOMAIN calls' :
                 /\ calls'[j].op = "uploadVideo"
                 /\ calls'[j].ok
                 /\ calls'[j].name = ClipName(batch[index])]_vars

\* C12: when the download of a ready event's clip fails, the failure counter
\* goes up by one and nothing else is done for the event: no eviction, no
\* upload, no deleteEvent, the SyncState, the store and the event source are
\* as before; the loop moves on to the next event of the batch, and the
\* event is still in the ready bucket for a later tick.
DownloadFailureIsolated ==
  [][(/\ ArchiverStep
      /\ pc = "download"
      /\ \E i \in DOMAIN calls' : calls'[i].op = "downloadVideo" /\ ~calls'[i].ok) =>
        /\ failure' = failure + 1
        /\ success' = success
        /\ Len(calls') = 1
        /\ videosOnDrive' = videosOnDrive
        /\ drive' = drive
        /\ usage' = usage
        /\ boschEvents' = boschEvents
        /\ localFiles' = localFiles
        /\ batch' = batch
        /\ index' = index + 1
        /\ pc' = IF index < Len(batch) THEN "download" ELSE "audit"
        /\ batch[index] \in ReadyBucket']_vars

\* A batch of two events whose first download failed and whose second event
\* was archived: the first event is still listed and not in the SyncState.
DownloadFailureIsolatedWitness ==
  /\ pc = "audit"
  /\ Len(batch) = 2
  /\ index = 3
  /\ failure = 1
  /\ success = 1
  /\ batch[1] \in ReadyBucket
  /\ SetHas(videosOnDrive, ClipName(batch[2]))
  /\ \A i \in DOMAIN boschEvents : boschEvents[i].id # batch[2].id

----------------------------------------------------------------------------
(* Properties of the loop *)

\* The number of mainLoop invocations that are executing.
Executing == IF pc \in {"classify", "download", "ensure", "upload"} THEN 1 ELSE 0

\* C13: at any moment at most one mainLoop invocation is executing or
\* scheduled: a tick arms its successor only once its own action is over, and
\* arms at most one.
OneTickInFlight == Executing + Len(scheduled) <= 1

\* A batch of two events is over and the one successor of its tick is armed.
OneTickInFlightWitness ==
  /\ pc = "audit"
  /\ Len(scheduled) = 1
  /\ tick.branch = "archive"
  /\ Len(batch) = 2
  /\ index = 3
  /\ success + failure >= 2

\* A step of the loop outside a batch: the audit step, the classification or
\* the idle refresh.
LoopStep ==
  /\ pc \in {"audit", "classify", "idle"}
  /\ engineVars' # engineVars

\* C14: a capability call that fails during a tick (listing the events in the
\* audit step or in the classification, listing the store at the idle
\* refresh) does not end the loop: after the step a mainLoop invocation is
\* still executing or scheduled.
LoopSurvivesErrors ==
  [][LoopStep => Executing' + Len(scheduled') >= 1]_vars

\* The branch the buckets of the current listing call for.
ExpectedBranch ==
  IF NotYetOnDrive = {} THEN "idle"
  ELSE IF ReadyBucket # {} THEN "archive"
  ELSE IF RequestableBucket # {} /\ Cardinality(PendingBucket) < maxNumberOfManualRequest
    THEN "request"
  ELSE IF /\ Cardinality({e \in NotYetOnDrive : e.isFavorite}) < maxNumberOfFavoriteEvent
          /\ Cardinality({e \in NotYetOnDrive : ~e.isFavorite})
               >= maxNumberOfNotFavoriteEvent
    THEN "favorite"
  ELSE "wait"

AuditWriteFailed(made) ==
  \E i \in DOMAIN made : made[i].op = "writeFile" /\ ~made[i].ok

\* C15: a tick whose audit write fails goes on: the audit step leaves the
\* file as it was and hands over to the classification, and the
\* classification takes the branch the listing calls for, as it does after a
\* successful write.
AuditFailureDoesNotBlock ==
  [][/\ (LoopStep /\ pc = "audit" /\ AuditWriteFailed(calls')) =>
          /\ pc' = "classify"
          /\ auditFile' = auditFile
          /\ videosOnDrive' = videosOnDrive
          /\ boschEvents' = boschEvents
     /\ (ClassifyStep /\ AuditWriteFailed(calls)) =>
          /\ tick'.branch = ExpectedBranch
          /\ pc' = IF ExpectedBranch = "archive" THEN "download"
                   ELSE IF ExpectedBranch = "idle" THEN "idle" ELSE "audit"
          /\ Len(CallsOf(calls', "requestClipEvents")) =
               IF ExpectedBranch = "request" THEN 1 ELSE 0]_vars

\* No audit write has succeeded although events were listed, and the tick
\* after the failed write issued an export request and armed its successor.
AuditFailureDoesNotBlockWitness ==
  /\ pc = "audit"
  /\ Len(scheduled) = 1
  /\ auditFile = <<>>
  /\ tick.branch = "request"
  /\ calls # <<>>
  /\ tick.listing # <<>>
  /\ \A i \in DOMAIN tick.listing : SetHas(allEventsEncounted, tick.listing[i].timestamp)

\* C16: a tick that reads the listing the previous tick read, the store
\* being unchanged as well, makes no mutating call: no export request and no
\* favorite change.
TickIsIdempotent ==
  [][(/\ ClassifyStep
      /\ tick.branch # "none"
      /\ tick.listing = boschEvents
      /\ drive = <<>>) =>
        \A i \in DOMAIN calls' :
          calls'[i].op \notin {"requestClipEvents", "setEventFavoriteStatus",
                               "deleteEvent", "uploadVideo", "deleteVideo"}]_vars

----------------------------------------------------------------------------
(* Properties of the date conversion *)

\* C17: for a date string with a bracketed zone name, toDate returns the
\* instant of the ISO part: the wall-clock reading less the UTC offset.
ToDateKeepsInstant ==
  (dateOutput # <<>> /\ dateInput.zone # "") =>
    dateOutput[1] = dateInput.local - dateInput.offset

----------------------------------------------------------------------------
(* Further properties of one tick *)

HasStatuses(bucket, statuses) ==
  \A i \in DOMAIN bucket : bucket[i].videoClipUploadStatus \in statuses

InAscendingOrder(bucket) ==
  \A i \in 1..(Len(bucket) - 1) :
    Instant(bucket[i].timestamp) <= Instant(bucket[i + 1].timestamp)

\* C18: the three buckets of a tick partition its working list: ready holds
\* Done clips, requestable Local and Unavailable ones, pending Pending ones;
\* the buckets are pairwise disjoint, every event of the working list is in
\* exactly one of them, and each bucket is in ascending order of timestamps
\* like the working list.
SplitIsPartition ==
  LET ready == tick.buckets.clipsReadyToBeUploadToDrive
      requestable == tick.buckets.clipsToBeRequest
      pending == tick.buckets.clipsPending
  IN  /\ HasStatuses(ready, {"Done"})
      /\ HasStatuses(requestable, {"Local", "Unavailable"})
      /\ HasStatuses(pending, {"Pending"})
      /\ SeqToSet(ready) \cap SeqToSet(requestable) = {}
      /\ SeqToSet(ready) \cap SeqToSet(pending) = {}
      /\ SeqToSet(requestable) \cap SeqToSet(pending) = {}
      /\ SeqToSet(ready) \cup SeqToSet(requestable) \cup SeqToSet(pending)
           = SeqToSet(tick.working)
      /\ Len(ready) + Len(requestable) + Len(pending) = Len(tick.working)
      /\ InAscendingOrder(ready)
      /\ InAscendingOrder(requestable)
      /\ InAscendingOrder(pending)

\* A working list split into three buckets that are all inhabited, the
\* requestable one by a Local and an Unavailable clip.
SplitIsPartitionWitness ==
  /\ Len(tick.buckets.clipsReadyToBeUploadToDrive) = 1
  /\ Len(tick.buckets.clipsToBeRequest) = 2
  /\ Len(tick.buckets.clipsPending) = 2
  /\ Len(tick.working) = 5
  /\ \E i \in DOMAIN tick.buckets.clipsToBeRequest :
       tick.buckets.clipsToBeRequest[i].videoClipUploadStatus = "Unavailable"

\* C19: a tick issues at most one export request: exactly one, for one event,
\* when it takes the request branch, whatever room the cap leaves, and none
\* otherwise; it then arms its successor.
OneRequestPerTick ==
  [][ClassifyStep =>
        /\ Len(CallsOf(calls', "requestClipEvents")) =
             IF ExpectedBranch = "request" THEN 1 ELSE 0
        /\ Cardinality(exportRequested' \ exportRequested) <= 1
        /\ tick'.branch = "request" =>
             /\ ExpectedBranch = "request"
             /\ pc' = "audit"
             /\ Len(scheduled') = 1]_vars

\* A tick that requested one clip out of two requestable ones while no
\* export was pending.
OneRequestPerTickWitness ==
  /\ tick.branch = "request"
  /\ Len(tick.buckets.clipsToBeRequest) = 2
  /\ Len(tick.buckets.clipsPending) = 0
  /\ Len(CallsOf(calls, "requestClipEvents")) = 1
  /\ Cardinality(exportRequested) = 1
  /\ pc = "audit"

\* C20: uploadVideo is called for an event only when the most recent quota
\* check for its file found free quota less the 10 MB margin to be at least
\* the size of the file.
UploadAfterQuotaCheck ==
  [][(ArchiverStep /\ CallsOf(calls', "uploadVideo") # <<>>) =>
        /\ pc = "upload"
        /\ Len(calls) = 1
        /\ calls[1].op = "getAvailableSpace"
        /\ calls[1].size = ClipSize(batch[index].id)
        /\ calls[1].result - safetyMargin >= calls[1].size
        /\ SpaceConstraintHolds]_vars

\* A clip was uploaded after the eviction of an object had made room for it.
UploadAfterQuotaCheckWitness ==
  /\ Len(evicted) = 1
  /\ \E i \in DOMAIN calls : calls[i].op = "uploadVideo" /\ calls[i].ok
  /\ Len(drive) >= 2

----------------------------------------------------------------------------
(* Properties of the store under other hands *)

\* An iteration of the eviction loop that read the quota.
QuotaChecked == CallsOf(calls', "getAvailableSpace") # <<>>

\* The eviction loop has nothing to evict and not enough room for the file.
Exhausted ==
  /\ pc = "ensure"
  /\ videosOnDrive = <<>>
  /\ ~SpaceConstraintHolds

FailedDeletions(made) ==
  SelectSeq(made, LAMBDA c : c.op = "deleteVideo" /\ ~c.ok)

\* C22: an iteration of the eviction loop removes a name from the SyncState
\* if and only if deleteVideo returned true for that name. When deleteVideo
\* returns false the SyncState is unchanged, the loop goes on, and the name is
\* still the one with the earliest timestamp: the iteration that follows a
\* failed deletion asks for the same object again.
EvictionUpdatesSyncState ==
  [][(ArchiverStep /\ pc = "ensure") =>
        LET deletions == CallsOf(calls', "deleteVideo")
            removed == SeqToSet(videosOnDrive) \ SeqToSet(videosOnDrive')
        IN  /\ \A name \in removed :
                 \E i \in DOMAIN deletions : deletions[i].name = name /\ deletions[i].ok
            /\ \A i \in DOMAIN deletions :
                 /\ deletions[i].name \in SeqToSet(videosOnDrive)
                 /\ deletions[i].ok => deletions[i].name \in removed
                 /\ ~deletions[i].ok =>
                      /\ videosOnDrive' = videosOnDrive
                      /\ pc' = "ensure"
                      /\ \A name \in SeqToSet(videosOnDrive') :
                           Instant(deletions[i].name) <= Instant(name)
                 /\ \A j \in DOMAIN FailedDeletions(calls) :
                      deletions[i].name = FailedDeletions(calls)[j].name]_vars

\* One object was evicted and has left the SyncState; the deletion of the
\* next one has failed and its name is still in the SyncState.
EvictionUpdatesSyncStateWitness ==
  /\ pc = "ensure"
  /\ Len(evicted) = 1
  /\ evicted[1] \notin SeqToSet(videosOnDrive)
  /\ FailedDeletions(calls) # <<>>
  /\ FailedDeletions(calls)[1].name \in SeqToSet(videosOnDrive)

----------------------------------------------------------------------------
(* Properties of the loop and of its timers *)

\* The event a call of the Archiver is about.
IsAbout(call, event) ==
  IF call.op \in {"downloadVideo", "deleteEvent"} THEN call.id = event.id
  ELSE IF call.op = "uploadVideo" THEN call.name = ClipName(event)
  ELSE call.op \in {"getAvailableSpace", "deleteVideo"}

\* C23: the Archiver works through the ready bucket in its order, which is
\* the ascending order of the classifier, one event at a time: every step is
\* about the event at the current position, that event is downloaded once,
\* then checked for space, then uploaded, and the position moves on by one
\* only when the event is over, whether it succeeded or failed. The batch
\* ends, and the successor is armed, only after the last event.
BatchIsSequential ==
  [][/\ ClassifyStep =>
          /\ batch' = tick'.buckets.clipsReadyToBeUploadToDrive
          /\ SeqToSet(batch') = ReadyBucket
          /\ Len(batch') = Cardinality(ReadyBucket)
          /\ InAscendingOrder(batch')
          /\ batch' # <<>> => (index' = 1 /\ pc' = "download")
     /\ ArchiverStep =>
          /\ index \in DOMAIN batch
          /\ batch' = batch
          /\ \A i \in DOMAIN calls' : IsAbout(calls'[i], batch[index])
          /\ Len(CallsOf(calls', "downloadVideo")) = IF pc = "download" THEN 1 ELSE 0
          /\ index' \in {index, index + 1}
          /\ index' = index =>
               /\ pc = "download" => pc' = "ensure"
               /\ pc = "ensure" => pc' \in {"ensure", "upload"}
               /\ pc # "upload"
          /\ index' = index + 1 =>
               pc' = IF index < Len(batch) THEN "download" ELSE "audit"
          /\ pc' = "audit" <=> Len(scheduled') = 1]_vars

\* A batch of two events is over: the first event was counted as a failure
\* when its deleteEvent threw, and the second one was archived all the same.
BatchIsSequentialWitness ==
  /\ pc = "audit"
  /\ tick.branch = "archive"
  /\ Len(batch) = 2
  /\ index = 3
  /\ success = 2
  /\ failure = 1
  /\ \E i \in DOMAIN boschEvents : boschEvents[i].id = batch[1].id
  /\ \A i \in DOMAIN boschEvents : boschEvents[i].id # batch[2].id

\* The delay, in seconds, of the successor of a tick that takes the branch the
\* listing calls for.
ExpectedDelay ==
  IF ExpectedBranch \in {"archive", "favorite"} THEN 0
  ELSE IF ExpectedBranch \in {"request", "wait"} THEN 10
  ELSE 30

\* C24: a tick that completes arms exactly one successor, with the delay of
\* its branch: none after the archive branch (armed when the batch is over,
\* and not before), 10 s after the request branch, none after the favorite
\* branch, 10 s when the working set is not empty and nothing is actionable,
\* 30 s when the working set is empty.
SuccessorDelay ==
  [][/\ ClassifyStep =>
          /\ tick'.branch = ExpectedBranch
          /\ tick'.timeouts = <<ExpectedDelay>>
          /\ scheduled' = IF ExpectedBranch = "archive" THEN <<>> ELSE <<ExpectedDelay>>
     /\ ArchiverStep =>
          /\ tick.branch = "archive"
          /\ scheduled = <<>>
          /\ scheduled' = IF index' > Len(batch) THEN <<0>> ELSE <<>>]_vars

\* A tick that promoted an event has armed its successor with no delay.
SuccessorDelayWitness ==
  /\ pc = "audit"
  /\ tick.branch = "favorite"
  /\ tick.promoted # <<>>
  /\ scheduled = <<0>>

\* The calls of a list of calls that are op calls for name and succeeded.
Succeeded(made, op, name) ==
  SelectSeq(made, LAMBDA c : c.op = op /\ c.name = name /\ c.ok)

\* C25: the SyncState is replaced by a full listing of the store only by the
\* refresh that follows a tick with an empty working set (and by start); every
\* other step that changes it adds the name of a clip that uploadVideo has
\* just put on the store, or removes the name of an object that deleteVideo
\* has just deleted.
SyncStateFrame ==
  [][videosOnDrive' # videosOnDrive =>
       IF pc \in {"startList", "idle"}
         THEN /\ pc = "idle" => (tick.branch = "idle" /\ tick.working = <<>>)
              /\ videosOnDrive' = NewSet(listAllFilesName(drive))
         ELSE /\ ArchiverStep
              /\ \E name \in SeqToSet(videosOnDrive) \cup SeqToSet(videosOnDrive') :
                   IF name \in SeqToSet(videosOnDrive)
                     THEN /\ videosOnDrive' = SetDelete(videosOnDrive, name)
                          /\ Succeeded(calls', "deleteVideo", name) # <<>>
                     ELSE /\ videosOnDrive' = SetAdd(videosOnDrive, name)
                          /\ Succeeded(calls', "uploadVideo", name) # <<>>]_vars

\* The loop is alive and its last tick found nothing to archive, to request
\* or to promote.
NothingActionable ==
  /\ tick.branch \in {"wait", "idle"}
  /\ pc \in {"audit", "classify", "idle"}

\* The refresh has just replaced the SyncState by a listing of the store.
Refreshed == pc = "audit" /\ tick.branch = "idle"

\* C26: if from some tick on nothing is actionable, whether the working set
\* is empty or holds only events to wait for, the SyncState is refreshed from
\* a listing of the store again and again.
StaleSyncStateRefreshed == <>[]NothingActionable => []<>Refreshed

\* The timestamps of the events the event source lists now.
ListedNow == {boschEvents[i].timestamp : i \in DOMAIN boschEvents}

\* C27: the audit record only grows: neither the set of timestamps
\* encountered nor the set of timestamps in the audit file ever loses an
\* element. An audit step adds the timestamp of every listed event, of any
\* type and status, to the record, and when its write succeeds the file holds
\* the whole record in ascending order of timestamps; the file is written by
\* the audit step only, before the classification of the tick.
AuditIsAppendOnly ==
  [][/\ SeqToSet(allEventsEncounted) \subseteq SeqToSet(allEventsEncounted')
     /\ SeqToSet(auditFile) \subseteq SeqToSet(auditFile')
     /\ auditFile' # auditFile => (pc = "audit" /\ pc' = "classify" /\ tick' = tick)
     /\ (pc = "audit" /\ pc' = "classify") =>
          /\ SeqToSet(allEventsEncounted') = SeqToSet(allEventsEncounted) \cup ListedNow
          /\ ~AuditWriteFailed(calls') =>
               /\ SeqToSet(auditFile') = SeqToSet(allEventsEncounted')
               /\ Len(auditFile') = Len(allEventsEncounted')
               /\ IsAscending(auditFile')]_vars

\* The file holds two timestamps, oldest first, in another order than they
\* were encountered, and one of them is of an event that is no longer listed.
AuditIsAppendOnlyWitness ==
  /\ Len(auditFile) = 2
  /\ Instant(auditFile[1]) < Instant(auditFile[2])
  /\ auditFile # allEventsEncounted
  /\ SeqToSet(auditFile) = SeqToSet(allEventsEncounted)
  /\ ~(SeqToSet(auditFile) \subseteq ListedNow)

----------------------------------------------------------------------------
(* Properties of the export status pollers *)

\* The status the event source holds for an event, "undefined" when it lists
\* no such event.
StatusOf(id) ==
  IF \E e \in SeqToSet(boschEvents) : e.id = id
    THEN (CHOOSE e \in SeqToSet(boschEvents) : e.id = id).videoClipUploadStatus
    ELSE "undefined"

\* A timer of a poller has fired and the poller is not as it was.
PollStep == pollers' # pollers /\ engineVars' = engineVars

\* What a poller that reads status may become: it stays armed for another 5 s
\* on Pending, resolves with true on Done and with false on anything else.
AfterReading(poller, status) ==
  [id |-> poller.id,
   state |-> IF status = "Pending" THEN "waiting"
             ELSE IF status = "Done" THEN "true" ELSE "false",
   timeout |-> IF status = "Pending" THEN 5 ELSE 0,
   seen |-> status]

\* C28: a poller is armed for 5 s for as long as it has read nothing but
\* Pending; the first other status it reads resolves it, with true for Done
\* and with false for every other status and for an event that is no longer
\* listed; a resolved poller is never armed again and never changes its
\* result. A check whose listing throws resolves nothing.
PollerResolvesOnce ==
  [][/\ \A poller \in pollers' :
          /\ poller.state = "waiting" =>
               (poller.timeout = 5 /\ poller.seen \in {"none", "Pending"})
          /\ poller.state = "true" => poller.seen = "Done"
          /\ poller.state = "false" =>
               poller.seen \in (EventVideoClipUploadStatus \cup {"undefined"})
                                 \ {"Pending", "Done"}
     /\ \A poller \in pollers :
          poller.state \in {"true", "false"} => poller \in pollers'
     /\ PollStep =>
          \E poller \in pollers :
            /\ poller.state = "waiting"
            /\ \E after \in {AfterReading(poller, StatusOf(poller.id)),
                             [AfterReading(poller, "error") EXCEPT !.state = "lost"]} :
                 pollers' = (pollers \ {poller}) \cup {after}]_vars

\* A poller resolved with false because its event was no longer listed, the
\* clip having been archived and the event deleted meanwhile.
PollerResolvesOnceWitness ==
  /\ boschEvents = <<>>
  /\ \E poller \in pollers : poller.state = "false" /\ poller.seen = "undefined"
  /\ \E poller \in pollers : poller.state = "true"

----------------------------------------------------------------------------
(* Further properties of the request pipeline *)

\* The events of the working set whose last export ended in Unavailable.
FailedExports == {e \in NotYetOnDrive : e.videoClipUploadStatus = "Unavailable"}

\* No other requestable event is as new as this one.
IsNewestRequestable(event) ==
  \A other \in RequestableBucket \ {event} :
    Instant(other.timestamp) < Instant(event.timestamp)

\* C29: an event whose export ended in Unavailable stays in the working set
\* and is put in the requestable bucket by every tick, whatever requests were
\* made for it before; a tick with no ready clip and fewer than
\* maxNumberOfManualRequest pending ones requests it again when it is the
\* newest requestable event.
UnavailableIsRetried ==
  [][ClassifyStep =>
        \A event \in FailedExports :
          /\ event \in SeqToSet(tick'.buckets.clipsToBeRequest)
          /\ (/\ ReadyBucket = {}
              /\ Cardinality(PendingBucket) < maxNumberOfManualRequest
              /\ IsNewestRequestable(event)) =>
               /\ CallsOf(calls', "requestClipEvents")
                    = <<[op |-> "requestClipEvents", id |-> event.id]>>
               /\ event.id \in exportRequested'
               /\ uploadingClipFromCameraToBosch(event.id) \in pollers']_vars

\* The last tick requested an event that was Unavailable when it was listed;
\* the export it asked for has ended in Unavailable again, and the event is
\* requestable once more.
UnavailableIsRetriedWitness ==
  /\ pc = "audit"
  /\ tick.branch = "request"
  /\ \E i \in DOMAIN tick.listing :
       /\ tick.listing[i].videoClipUploadStatus = "Unavailable"
       /\ tick.requested = <<tick.listing[i].id>>
       /\ tick.listing[i].id \notin exportRequested
       /\ tick.listing[i] \in FailedExports

----------------------------------------------------------------------------
(* Properties of start *)

\* The names of the objects of the store.
StoredNames == {drive[i].name : i \in DOMAIN drive}

\* No tick has classified anything yet.
BeforeFirstClassification == tick.branch = "none"

\* C30: start() goes on from its first await only when the client of the
\* store is ready, from its second only when the client of the event source
\* is ready as well, and it hands the first mainLoop a SyncState that holds
\* exactly the names of the listing it has just made; nothing changes that
\* SyncState before the first classification, and no tick is armed or runs
\* before the listing.
StartOrder ==
  [][/\ (pc = "start" /\ pc' # pc) =>
          ("google" \in clientsReady /\ pc' = "startBosch")
     /\ (pc = "startBosch" /\ pc' # pc) =>
          (clientsReady = {"google", "bosch"} /\ pc' = "startList")
     /\ (pc = "startList" /\ pc' # pc) =>
          \/ pc' = "stopped" /\ scheduled' = <<>> /\ videosOnDrive' = videosOnDrive
          \/ /\ pc' = "audit"
             /\ clientsReady = {"google", "bosch"}
             /\ SeqToSet(videosOnDrive') = StoredNames
             /\ Len(videosOnDrive') = Cardinality(StoredNames)
             /\ Len(scheduled') = 1
     /\ pc' \in {"start", "startBosch", "startList"} =>
          (scheduled' = <<>> /\ BeforeFirstClassification' /\ videosOnDrive' = <<>>)
     /\ (BeforeFirstClassification /\ pc \in {"audit", "classify"}) =>
          videosOnDrive' = videosOnDrive]_vars

\* Both clients are ready and the first tick is about to classify the events
\* against the listing of a store that holds two clips.
StartOrderWitness ==
  /\ pc = "classify"
  /\ BeforeFirstClassification
  /\ Len(videosOnDrive) = 2
  /\ SeqToSet(videosOnDrive) = StoredNames
  /\ clientsReady = {"google", "bosch"}

----------------------------------------------------------------------------
(* Further properties of a batch of the Archiver *)

\* C31: the Archiver leaves no local file behind: when a batch ends no
\* `<id>.mp4` of its events is on the local disk, and a step removes the local
\* file of an event only if uploadVideo has put the clip of that event on the
\* store in that step.
LocalFilesCleaned ==
  [][/\ (ArchiverStep /\ pc' = "audit") => localFiles' = {}
     /\ \A id \in localFiles \ localFiles' :
          /\ id = batch[index].id
          /\ Succeeded(calls', "uploadVideo", ClipName(batch[index])) # <<>>]_vars

\* C32: when a batch of n events is over, success + failure = n: every event
\* was counted once, in one of the two counters, also when its deleteEvent
\* failed after the upload.
CountersConsistent ==
  (pc = "audit" /\ batch # <<>> /\ index > Len(batch)) =>
    success + failure = Len(batch)

----------------------------------------------------------------------------
(* Properties of the calls the engine does not wait for *)

\* C33: a tick issues no export request for an event that has one
\* outstanding: requestClipEvents(id) is called only when no earlier request
\* for id is still short of a terminal status, even if the event is still
\* listed as Local.
NoDuplicateRequest ==
  [][ClassifyStep =>
        \A i \in DOMAIN calls' :
          calls'[i].op = "requestClipEvents" => calls'[i].id \notin exportRequested]_vars

\* C34: a favorite promotion is issued at most once per event: a tick calls
\* setEventFavoriteStatus(id, true) only for an event that no earlier tick
\* promoted, whether the event source has applied that earlier call or not.
PromotedOnce ==
  [][ClassifyStep =>
        \A i \in DOMAIN calls' :
          calls'[i].op = "setEventFavoriteStatus" =>
            /\ calls'[i].id \notin favoriteCalls
            /\ \A e \in SeqToSet(boschEvents) : e.id = calls'[i].id => ~e.isFavorite]_vars

FavoritesInWorkingSet == Cardinality({e \in NotYetOnDrive : e.isFavorite})

\* C35: the promotions of the engine never raise the number of favorites of
\* the working set above maxNumberOfFavoriteEvent: over any step of the loop
\* or of the event source applying a promotion, a count of at most 25 stays
\* at most 25.
FavoritesStayWithinMax ==
  [][FavoritesInWorkingSet <= maxNumberOfFavoriteEvent =>
        FavoritesInWorkingSet' <= maxNumberOfFavoriteEvent]_vars

\* The last promotion of a tick has been applied and brought the count of
\* favorites to its maximum.
FavoritesStayWithinMaxWitness ==
  /\ tick.promoted # <<>>
  /\ favoriteCalls = {}
  /\ FavoritesInWorkingSet = maxNumberOfFavoriteEvent

\* C36: the clip of an event is uploaded at most once: the Archiver neither
\* downloads nor uploads the clip of an event while the store holds an object
\* named `<timestamp>.mp4` after it, be that object the upload of an earlier
\* tick or of an earlier event of the same batch.
UploadedAtMostOnce ==
  [][ArchiverStep =>
        \A i \in DOMAIN calls' :
          calls'[i].op \in {"downloadVideo", "uploadVideo"} =>
            ClipName(batch[index]) \notin StoredNames]_vars

----------------------------------------------------------------------------
(* Properties of progress *)

\* No call to the store or to the event source has failed in the last step:
\* no failed listing has ended the loop, no call reported a failure, and the
\* space check did not throw (it did if deleteEvent follows no uploadVideo).
NoRemoteFailure ==
  /\ pc # "stopped"
  /\ \A i \in DOMAIN calls :
       /\ (calls[i].op # "writeFile" /\ "ok" \in DOMAIN calls[i]) => calls[i].ok
       /\ calls[i].op = "deleteEvent" => CallsOf(calls, "uploadVideo") # <<>>

\* Every event of the fixed set that is eligible has its clip on the store:
\* an event is either still listed with a status the classifier drops, or an
\* object `<timestamp>.mp4` of it is stored.
AllArchived ==
  \A id \in ProgressIds :
    \/ \E e \in SeqToSet(boschEvents) :
         e.id = id /\ e.videoClipUploadStatus = "Unknown"
    \/ Mp4Name(EventTimestamp(id)) \in StoredNames

\* A tick has found an empty working set.
EmptyWorkingSet == pc = "idle" /\ tick.branch = "idle" /\ tick.working = <<>>

\* C37: for a fixed set of events, a store with enough quota and exports
\* that all reach Done, and as long as no remote call fails, the loop
\* eventually reaches a tick with an empty working set, and then every
\* eligible event has its object `<timestamp>.mp4` in the store.
Progress ==
  []NoRemoteFailure =>
    /\ <>EmptyWorkingSet
    /\ [](EmptyWorkingSet => AllArchived)

\* Two eligible events were archived and deleted from the event source, and
\* the next tick found nothing left.
ProgressWitness ==
  /\ EmptyWorkingSet
  /\ boschEvents = <<>>
  /\ Cardinality(StoredNames) = Cardinality(ProgressIds)
  /\ AllArchived

\* The newest event of the listing.
NewestListed ==
  {e \in SeqToSet(boschEvents) :
     \A o \in SeqToSet(boschEvents) : Instant(o.timestamp) <= Instant(e.timestamp)}

\* C38: no starvation among the requestable events: if the newest requestable
\* event never leaves the requestable bucket, every older requestable event
\* is nevertheless eventually requested, the pending bucket being below the
\* cap.
\* The premise: the loop is alive and the newest event is Local or
\* Unavailable, whatever was requested. The conclusion: an export has been
\* requested for every older event.
NoStarvation ==
  [](/\ pc # "stopped"
     /\ NewestListed # {}
     /\ \A e \in NewestListed : e.videoClipUploadStatus \in {"Local", "Unavailable"})
    => <>(\A e \in SeqToSet(boschEvents) \ NewestListed : e.id \in exportRequested)

----------------------------------------------------------------------------
(* Properties of the connection *)

\* C39: refreshTokens issues one request at a time and at most
\* maxNumberOfTry of them, none after one that returned tokens; the request
\* that returns tokens stores them, signals ready and ends the call with
\* them; the stored tokens change in no other case, and after the third
\* failed request the call throws. getAccessToken returns the stored access
\* token with no request while it has not expired, and throws with no
\* request when no tokens are stored. A step in which refreshTokens issued
\* a request raises the count of requests of the invocation; a step that is
\* a call of getAccessToken begins an invocation, the one before being over.
TokenRefreshBounded ==
  [][/\ (/\ tokenCall.op \in {"refreshTokens", "getAccessToken"}
         /\ tokenCall'.op = tokenCall.op
         /\ tokenCall'.requests > tokenCall.requests) =>
          /\ tokenCall.outcome = "running"
          /\ tokenCall.requests < maxNumberOfTry
          /\ tokenCall'.requests = tokenCall.requests + 1
          /\ tokenCall'.outcome = "returned" =>
               /\ tokens' # <<>>
               /\ tokens'[1].access_token = tokenCall'.value
               /\ tokens'[1].expires_at = now + tokens'[1].expires_in
               /\ "bosch" \in clientsReady'
          /\ tokenCall'.outcome # "returned" =>
               /\ tokens' = tokens
               /\ clientsReady' = clientsReady
          /\ (tokenCall'.outcome # "returned" /\ tokenCall'.requests = maxNumberOfTry) =>
               tokenCall'.outcome = "thrown"
     /\ (/\ tokenCall.outcome # "running"
         /\ tokenCall' # tokenCall
         /\ tokenCall'.op = "getAccessToken") =>
          /\ tokens' = tokens
          /\ tokenCall'.requests = 0
          /\ (tokens # <<>> /\ now < tokens[1].expires_at) =>
               /\ tokenCall'.outcome = "returned"
               /\ tokenCall'.value = tokens[1].access_token
          /\ tokens = <<>> => tokenCall'.outcome = "thrown"]_vars

\* getAccessToken found the stored tokens expired, three refresh requests
\* failed, and the call threw, the expired tokens being still stored.
TokenRefreshBoundedWitness ==
  /\ tokenCall.op = "getAccessToken"
  /\ tokenCall.outcome = "thrown"
  /\ tokenCall.requests = maxNumberOfTry
  /\ tokens # <<>>
  /\ ~isValide(tokens[1], now)

----------------------------------------------------------------------------
(* Properties of the comparators *)

\* C40: in every revision of the event API module, eventsByAscTimestamp(a, b)
\* is negative exactly when the instant of a is earlier than the instant of
\* b, and eventsByDescTimestamp(a, b) equals eventsByAscTimestamp(b, a).
ComparatorsOrder ==
  \A i \in DOMAIN compareOutput :
    /\ compareOutput[i].asc < 0 <=>
         Instant(compareInput[1].timestamp) < Instant(compareInput[2].timestamp)
    /\ compareOutput[i].desc = compareOutput[i].ascExchanged

====
